---- MODULE Spec2Model ----
(***************************************************************************)
(* A model of the IFC "lite" STEP codec of ifc5cad: the statement and      *)
(* argument splitter, the entity parsers, the literal helpers, the spatial *)
(* graph builder, the geometry interpreter and the exchange writers.       *)
(*                                                                         *)
(* Text is a sequence of symbols.  A symbol is a one-character string for  *)
(* every character the scanners look at (quote, comma, parentheses,        *)
(* semicolon, '#', '=', '$', '.', '-', blank, newline) and a maximal run   *)
(* of letters, digits and underscores otherwise ("IFCPROJECT", "12"): no   *)
(* scanner of the source looks inside such a run, the regular expressions  *)
(* \d+ and [A-Z0-9_]+ always consume a whole run.                          *)
(***************************************************************************)
EXTENDS Integers, Sequences, FiniteSets, TLC

VARIABLES
    pc,         \* position of the running call
    str,        \* quote/unquote: the plain string handed to quote
    quoted,     \* quote/unquote: the literal produced by quote
    decoded,    \* quote/unquote: the text produced by unquote
    value,      \* splitTopLevel: the argument text
    tokens,     \* splitTopLevel: the returned tokens
    stmts,      \* the statements the file under parse was written from
    text,       \* the text of the file
    parser,     \* which parser produced ifc
    ifc,        \* the parsed document: header, schemas, entities
    doc,        \* IFCLiteSerializer: the document handed to stringify
    parsed,     \* IFCLiteSerializer: the document returned by parse
    childMap,   \* importer: the map made by buildChildrenMap
    nodes,      \* importer: the nodes made so far, the root first
    stack,      \* importer: the createTreeNode calls in progress
    visited,    \* importer: the visited set of createTreeNode
    surface,    \* geometry: the mesh returned by tryExtractMesh
    tree,       \* exporter: the document handed to export, its name and nodes
    calls       \* exporter: the export calls made so far, per exporter

quoteVars == <<str, quoted, decoded>>
splitVars == <<value, tokens>>
parseVars == <<stmts, text, parser, ifc>>
serializerVars == <<doc, parsed>>
importVars == <<childMap, nodes, stack, visited>>

vars == <<pc, quoteVars, splitVars, parseVars, serializerVars, importVars, surface, tree, calls>>

(***************************************************************************)
(* Bounds of the model.                                                    *)
(***************************************************************************)
MaxStrLen == 4      \* longest plain string handed to quote
MaxArgLen == 5      \* longest argument text handed to splitTopLevel
MaxStatements == 3  \* most statements in a generated data section
MaxNumber == 40     \* largest number written in a generated text
MaxDocEntities == 2 \* most entities of a document handed to stringify

\* All sequences over S of length 0..n.
RECURSIVE SeqsUpTo(_, _)
SeqsUpTo(S, n) ==
    IF n = 0 THEN {<<>>}
    ELSE LET shorter == SeqsUpTo(S, n - 1)
         IN  shorter \cup {Append(s, c) : s \in {t \in shorter : Len(t) = n - 1}, c \in S}

(***************************************************************************)
(* String primitives of the JavaScript runtime, on symbol sequences.       *)
(***************************************************************************)
IsSpace(c) == c \in {" ", "\n"}

RECURSIVE trimStart(_)
trimStart(s) == IF s # <<>> /\ IsSpace(Head(s)) THEN trimStart(Tail(s)) ELSE s

RECURSIVE trimEnd(_)
trimEnd(s) ==
    IF s # <<>> /\ IsSpace(s[Len(s)]) THEN trimEnd(SubSeq(s, 1, Len(s) - 1)) ELSE s

trim(s) == trimEnd(trimStart(s))

startsWith(s, c) == s # <<>> /\ s[1] = c
endsWith(s, c) == s # <<>> /\ s[Len(s)] = c

\* s.slice(1, -1)
sliceInner(s) == SubSeq(s, 2, Len(s) - 1)

\* s.replaceAll("'", "''") and s.replace(/'/g, "''")
RECURSIVE doubleQuotes(_)
doubleQuotes(s) ==
    IF s = <<>> THEN <<>>
    ELSE IF Head(s) = "'" THEN <<"'", "'">> \o doubleQuotes(Tail(s))
    ELSE <<Head(s)>> \o doubleQuotes(Tail(s))

\* s.replace(/''/g, "'"): leftmost non-overlapping pairs
RECURSIVE collapseQuotes(_)
collapseQuotes(s) ==
    IF s = <<>> THEN <<>>
    ELSE IF Len(s) >= 2 /\ s[1] = "'" /\ s[2] = "'"
         THEN <<"'">> \o collapseQuotes(SubSeq(s, 3, Len(s)))
    ELSE <<Head(s)>> \o collapseQuotes(Tail(s))

(***************************************************************************)
(* Literal helpers.                                                        *)
(***************************************************************************)
\* A quote that wraps the text without doubling the quotes inside it.
quoteNoDoubling(v) == <<"'">> \o v \o <<"'">>

quote(v) == <<"'">> \o doubleQuotes(v) \o <<"'">>

unquote(v) ==
    LET trimmed == trim(v)
    IN  IF trimmed = <<"$">> \/ Len(trimmed) = 0 THEN <<>>
        ELSE IF startsWith(trimmed, "'") /\ endsWith(trimmed, "'")
             THEN collapseQuotes(sliceInner(trimmed))
        ELSE trimmed

(***************************************************************************)
(* splitTopLevel: the literal- and nesting-aware argument splitter.        *)
(***************************************************************************)
RECURSIVE splitTopLevelFrom(_, _, _)
splitTopLevelFrom(v, i, st) ==
    IF i > Len(v) THEN st
    ELSE LET ch == v[i] IN
        IF ch = "'" THEN
            IF st.inString /\ i + 1 <= Len(v) /\ v[i + 1] = "'"
            THEN splitTopLevelFrom(v, i + 2, [st EXCEPT !.current = @ \o <<"'", "'">>])
            ELSE splitTopLevelFrom(v, i + 1,
                    [st EXCEPT !.inString = ~@, !.current = Append(@, ch)])
        ELSE LET depth == IF st.inString THEN st.depth
                          ELSE IF ch = "(" THEN st.depth + 1
                          ELSE IF ch = ")" THEN st.depth - 1
                          ELSE st.depth
             IN  IF ~st.inString /\ ch = "," /\ depth = 0
                 THEN splitTopLevelFrom(v, i + 1,
                        [st EXCEPT !.result = Append(@, trim(st.current)),
                                   !.current = <<>>, !.depth = depth])
                 ELSE splitTopLevelFrom(v, i + 1,
                        [st EXCEPT !.current = Append(@, ch), !.depth = depth])

\* A splitter that pushes the text after the last comma even when it is blank.
splitTopLevelKeepLast(v) ==
    LET st == splitTopLevelFrom(v, 1,
                [result |-> <<>>, current |-> <<>>, depth |-> 0, inString |-> FALSE])
    IN  Append(st.result, trim(st.current))

splitTopLevel(v) ==
    LET st == splitTopLevelFrom(v, 1,
                [result |-> <<>>, current |-> <<>>, depth |-> 0, inString |-> FALSE])
    IN  IF Len(trim(st.current)) > 0 THEN Append(st.result, trim(st.current))
        ELSE st.result

(***************************************************************************)
(* Character classes and number conversion.                                *)
(***************************************************************************)
Punctuation ==
    {"'", ",", "(", ")", ";", "#", "=", "$", ".", "-", " ", "\n", "[", "]", ":", "\\"}

\* [A-Z0-9_]+ under the i flag: a run of letters, digits and underscores
IsWord(c) == c \notin Punctuation

\* \d+ : a run of digits
IsDigits(c) == \E n \in 0..MaxNumber : ToString(n) = c

\* Number.parseInt(c, 10) and Number(c) of a run of digits
parseInt(c) == CHOOSE n \in 0..MaxNumber : ToString(n) = c

UpperPairs ==
    {<<"data", "DATA">>, <<"endsec", "ENDSEC">>, <<"header", "HEADER">>,
     <<"file_schema", "FILE_SCHEMA">>, <<"a", "A">>, <<"b", "B">>,
     <<"ifcwall", "IFCWALL">>, <<"ifc4", "IFC4">>,
     <<"ViewDefinition", "VIEWDEFINITION">>, <<"ifc", "IFC">>,
     <<"Chili3D", "CHILI3D">>, <<"Model", "MODEL">>, <<"Site", "SITE">>,
     <<"Building", "BUILDING">>, <<"Storey", "STOREY">>, <<"Body", "BODY">>,
     <<"Tessellation", "TESSELLATION">>, <<"Project", "PROJECT">>,
     <<"Aggregates", "AGGREGATES">>, <<"Containment", "CONTAINMENT">>,
     <<"nYn96f5xhkg5f9JAF7q", "NYN96F5XHKG5F9JAF7Q">>}

UpperTable ==
    [c \in {q[1] : q \in UpperPairs} |-> (CHOOSE q \in UpperPairs : q[1] = c)[2]]

\* String.prototype.toUpperCase on one symbol and on a text
toUpperCase(c) == IF c \in DOMAIN UpperTable THEN UpperTable[c] ELSE c
toUpperCaseText(s) == [i \in 1..Len(s) |-> toUpperCase(s[i])]

\* The first index >= i of s that holds no white space (Len(s) + 1 if none).
RECURSIVE skipSpaces(_, _)
skipSpaces(s, i) == IF i <= Len(s) /\ IsSpace(s[i]) THEN skipSpaces(s, i + 1) ELSE i

\* s.indexOf(word + ";") and s.lastIndexOf(word + ";"), 0 when absent
indexOfMarker(s, word) ==
    LET hits == {i \in 1..(Len(s) - 1) : s[i] = word /\ s[i + 1] = ";"}
    IN  IF hits = {} THEN 0 ELSE CHOOSE i \in hits : \A j \in hits : i <= j
indexOfMarkerFrom(s, word, from) ==
    LET hits == {i \in from..(Len(s) - 1) : s[i] = word /\ s[i + 1] = ";"}
    IN  IF hits = {} THEN 0 ELSE CHOOSE i \in hits : \A j \in hits : i <= j
lastIndexOfMarker(s, word) ==
    LET hits == {i \in 1..(Len(s) - 1) : s[i] = word /\ s[i + 1] = ";"}
    IN  IF hits = {} THEN 0 ELSE CHOOSE i \in hits : \A j \in hits : i >= j

(***************************************************************************)
(* IfcLiteParser (ifc-lite-core), the scanning parser.                     *)
(***************************************************************************)
extractDataSection(t) ==
    LET upper == toUpperCaseText(t)
        start == indexOfMarker(upper, "DATA")
        end   == lastIndexOfMarker(upper, "ENDSEC")
    IN  IF start = 0 \/ end = 0 \/ end <= start THEN <<>>
        ELSE SubSeq(t, start + 2, end - 1)

extractHeaderSection(t) ==
    LET upper == toUpperCaseText(t)
        headerStart == indexOfMarker(upper, "HEADER")
        dataStart   == indexOfMarker(upper, "DATA")
    IN  IF headerStart = 0 \/ dataStart = 0 \/ dataStart <= headerStart THEN <<>>
        ELSE trim(SubSeq(t, headerStart, dataStart - 1))

\* FILE_SCHEMA_REGEX tried at index i: the text of group 1, or undefined
matchFileSchemaAt(t, i) ==
    LET a == skipSpaces(t, i + 1)
        b == skipSpaces(t, a + 1)
        closers == {j \in (b + 1)..Len(t) : t[j] = ")"}
        c == IF closers = {} THEN 0 ELSE CHOOSE j \in closers : \A k \in closers : j <= k
        d == skipSpaces(t, c + 1)
        e == skipSpaces(t, d + 1)
    IN  IF /\ toUpperCase(t[i]) = "FILE_SCHEMA"
           /\ a <= Len(t) /\ t[a] = "("
           /\ b <= Len(t) /\ t[b] = "("
           /\ c # 0
           /\ d <= Len(t) /\ t[d] = ")"
           /\ e <= Len(t) /\ t[e] = ";"
        THEN [found |-> TRUE, group |-> SubSeq(t, b + 1, c - 1)]
        ELSE [found |-> FALSE, group |-> <<>>]

matchFileSchema(t) ==
    LET hits == {i \in 1..Len(t) : matchFileSchemaAt(t, i).found}
    IN  IF hits = {} THEN [found |-> FALSE, group |-> <<>>]
        ELSE matchFileSchemaAt(t, CHOOSE i \in hits : \A j \in hits : i <= j)

extractSchemas(t) ==
    LET m == matchFileSchema(t)
    IN  IF ~m.found THEN <<>>
        ELSE LET parts == splitTopLevel(m.group)
             IN  [k \in 1..Len(parts) |-> unquote(toUpperCaseText(parts[k]))]

\* a loop body for which a doubled quote ends the literal
splitStatementsStepClosing(d, i, st) ==
    LET ch == d[i] IN
        IF st.skip THEN [st EXCEPT !.skip = FALSE]
        ELSE IF ch = "'" THEN
            IF st.inString /\ i + 1 <= Len(d) /\ d[i + 1] = "'"
            THEN [st EXCEPT !.current = @ \o <<"'", "'">>, !.skip = TRUE,
                            !.inString = FALSE]
            ELSE [st EXCEPT !.inString = ~@, !.current = Append(@, ch)]
        ELSE IF ch = ";" /\ ~st.inString THEN
            LET statement == trim(st.current)
            IN  [st EXCEPT !.statements =
                              IF Len(statement) > 0 THEN Append(@, statement) ELSE @,
                           !.current = <<>>]
        ELSE [st EXCEPT !.current = Append(@, ch)]

\* One turn of the loop of splitStatements at index i.  st.skip says that
\* the turn before has consumed this character too (its i++).
splitStatementsStep(d, i, st) ==
    LET ch == d[i] IN
        IF st.skip THEN [st EXCEPT !.skip = FALSE]
        ELSE IF ch = "'" THEN
            IF st.inString /\ i + 1 <= Len(d) /\ d[i + 1] = "'"
            THEN [st EXCEPT !.current = @ \o <<"'", "'">>, !.skip = TRUE]
            ELSE [st EXCEPT !.inString = ~@, !.current = Append(@, ch)]
        ELSE IF ch = ";" /\ ~st.inString THEN
            LET statement == trim(st.current)
            IN  [st EXCEPT !.statements =
                              IF Len(statement) > 0 THEN Append(@, statement) ELSE @,
                           !.current = <<>>]
        ELSE [st EXCEPT !.current = Append(@, ch)]

\* The turns lo..hi of the loop, in order.  The range is halved, and the
\* first half is computed before the second is entered, so that a long text
\* is not a deep evaluation.
RECURSIVE splitStatementsLoop(_, _, _, _)
splitStatementsLoop(d, lo, hi, st) ==
    IF lo > hi THEN st
    ELSE IF lo = hi THEN splitStatementsStep(d, lo, st)
    ELSE LET mid == (lo + hi) \div 2
             half == splitStatementsLoop(d, lo, mid, st)
         IN  IF half.skip \in BOOLEAN THEN splitStatementsLoop(d, mid + 1, hi, half) ELSE half

splitStatements(d) ==
    LET st == splitStatementsLoop(d, 1, Len(d),
                [statements |-> <<>>, current |-> <<>>, inString |-> FALSE, skip |-> FALSE])
        trailing == trim(st.current)
    IN  IF Len(trailing) > 0 THEN Append(st.statements, trailing) ELSE st.statements

\* ENTITY_REGEX = /^#(\d+)\s*=\s*([A-Z0-9_]+)\s*\(([\s\S]*)\)$/i on a statement
matchEntity(statement) ==
    LET n  == Len(statement)
        eq == skipSpaces(statement, 3)
        ty == skipSpaces(statement, eq + 1)
        op == skipSpaces(statement, ty + 1)
    IN  IF /\ n >= 2 /\ statement[1] = "#" /\ IsDigits(statement[2])
           /\ eq <= n /\ statement[eq] = "="
           /\ ty <= n /\ IsWord(statement[ty])
           /\ op <= n /\ statement[op] = "("
           /\ op < n /\ statement[n] = ")"
        THEN [matched |-> TRUE, id |-> statement[2], type |-> statement[ty],
              body |-> SubSeq(statement, op + 1, n - 1)]
        ELSE [matched |-> FALSE, id |-> "", type |-> "", body |-> <<>>]

\* A parse loop that gives up at the first statement that does not match.
RECURSIVE parseStatementsStopping(_, _)
parseStatementsStopping(statements, entities) ==
    IF statements = <<>> THEN entities
    ELSE LET statement == Head(statements)
             match == matchEntity(statement)
         IN  IF ~match.matched THEN entities
             ELSE parseStatementsStopping(Tail(statements),
                    Append(entities,
                        [id |-> parseInt(match.id),
                         type |-> toUpperCase(match.type),
                         args |-> splitTopLevel(match.body),
                         raw |-> statement]))

RECURSIVE parseStatements(_, _)
parseStatements(statements, entities) ==
    IF statements = <<>> THEN entities
    ELSE LET statement == Head(statements)
             match == matchEntity(statement)
         IN  IF ~match.matched THEN parseStatements(Tail(statements), entities)
             ELSE parseStatements(Tail(statements),
                    Append(entities,
                        [id |-> parseInt(match.id),
                         type |-> toUpperCase(match.type),
                         args |-> splitTopLevel(match.body),
                         raw |-> statement]))

IfcLiteParser_parse(t) ==
    [header   |-> extractHeaderSection(t),
     schemas  |-> extractSchemas(t),
     entities |-> parseStatements(splitStatements(extractDataSection(t)), <<>>)]

(***************************************************************************)
(* Reference helpers and the entity map of the importer.                   *)
(***************************************************************************)
\* With(v, F) is F(v): v is computed once and named by the parameter of F.
With(v, F(_)) == F(v)

\* The value of byId.get for an id that no entity carries.
Undefined == [id |-> 0 - 1, type |-> "undefined", args |-> <<>>, raw |-> <<>>]
\* The value of parseEntityReference for a token that is no reference.
NoRef == 0 - 1

parseEntityReference(v) ==
    With(trim(v), LAMBDA t :
        IF Len(t) = 2 /\ t[1] = "#" /\ IsDigits(t[2]) THEN parseInt(t[2]) ELSE NoRef)

parseReferenceList(v) ==
    With(trim(v), LAMBDA trimmed :
        IF ~(startsWith(trimmed, "(") /\ endsWith(trimmed, ")")) THEN <<>>
        ELSE With(splitTopLevel(sliceInner(trimmed)), LAMBDA values :
                SelectSeq([i \in 1..Len(values) |-> parseEntityReference(values[i])],
                          LAMBDA x : x # NoRef)))

\* new Map(entities.map(x => [x.id, x])).get(id): the last entity written
\* under the id
byIdGet(entities, id) ==
    LET hits == {i \in 1..Len(entities) : entities[i].id = id}
    IN  IF hits = {} THEN Undefined
        ELSE entities[CHOOSE i \in hits : \A j \in hits : i >= j]

\* entity.args[k] ?? ""
arg(entity, k) == IF k + 1 <= Len(entity.args) THEN entity.args[k + 1] ELSE <<>>

\* entity.args[k] ?? d
argOr(entity, k, d) == IF k + 1 <= Len(entity.args) THEN entity.args[k + 1] ELSE d

\* parseEntityReference(entity.args[k] ?? "")
argRef(entity, k) == parseEntityReference(arg(entity, k))

(***************************************************************************)
(* Numbers.  The numbers of the model are the integers, written n, -n or   *)
(* n. in a text; a number that is not finite is NaN.                       *)
(***************************************************************************)
NaN == [finite |-> FALSE, n |-> 0]

\* Number.parseFloat: the longest numeric prefix after leading white space
parseFloat(v) ==
    With(trimStart(v), LAMBDA t :
        LET signed == Len(t) >= 1 /\ t[1] \in {"-", "+"}
            d == IF signed THEN 2 ELSE 1
        IN  IF d <= Len(t) /\ IsDigits(t[d])
            THEN [finite |-> TRUE,
                  n |-> IF signed /\ t[1] = "-" THEN 0 - parseInt(t[d]) ELSE parseInt(t[d])]
            ELSE NaN)

Max(a, b) == IF a >= b THEN a ELSE b

\* value.replace(/^\(/, "") and value.replace(/\)$/, "")
stripOpen(t) == IF startsWith(t, "(") THEN Tail(t) ELSE t
stripClose(t) == IF endsWith(t, ")") THEN SubSeq(t, 1, Len(t) - 1) ELSE t

parseNumberTuple(v) ==
    With(stripClose(stripOpen(trim(v))), LAMBDA inner :
        IF Len(inner) = 0 THEN <<>>
        ELSE With(splitTopLevel(inner), LAMBDA parts :
                With(SelectSeq([i \in 1..Len(parts) |-> parseFloat(trim(parts[i]))],
                               LAMBDA x : x.finite),
                     LAMBDA kept : [i \in 1..Len(kept) |-> kept[i].n])))

splitOuterTuple(v) ==
    With(trim(v), LAMBDA trimmed :
        IF ~(startsWith(trimmed, "(") /\ endsWith(trimmed, ")")) THEN <<>>
        ELSE splitTopLevel(sliceInner(trimmed)))

\* splitOuterTuple(value).map(parseNumberTuple).filter((x) => x.length >= 3)
tuplesOfThree(v) ==
    With(splitOuterTuple(v), LAMBDA tuples :
        SelectSeq([i \in 1..Len(tuples) |-> parseNumberTuple(tuples[i])],
                  LAMBDA x : Len(x) >= 3))

parsePointTupleList(v) ==
    With(tuplesOfThree(v), LAMBDA kept :
        [i \in 1..Len(kept) |-> <<kept[i][1], kept[i][2], kept[i][3]>>])

\* a parseTriangleTupleList that keeps the indices as they are written
parseTriangleTupleListAsWritten(v) ==
    With(tuplesOfThree(v), LAMBDA kept :
        [i \in 1..Len(kept) |-> <<kept[i][1], kept[i][2], kept[i][3]>>])

parseTriangleTupleList(v) ==
    With(tuplesOfThree(v), LAMBDA kept :
        [i \in 1..Len(kept) |->
            <<Max(0, kept[i][1] - 1), Max(0, kept[i][2] - 1), Max(0, kept[i][3] - 1)>>])

(***************************************************************************)
(* Vectors and Matrix4.  A matrix is the 16-element column-major array     *)
(* handed to Matrix4.fromArray.                                            *)
(***************************************************************************)
Matrix4_identity == <<1, 0, 0, 0,  0, 1, 0, 0,  0, 0, 1, 0,  0, 0, 0, 1>>

\* a.multiply(b): the transform that applies b first, then a
Matrix4_multiply(a, b) ==
    [k \in 1..16 |->
        LET col == (k - 1) \div 4
            row == (k - 1) % 4
        IN  a[row + 1] * b[4 * col + 1] + a[row + 5] * b[4 * col + 2]
              + a[row + 9] * b[4 * col + 3] + a[row + 13] * b[4 * col + 4]]

Matrix4_ofPoint(m, q) ==
    <<m[1] * q[1] + m[5] * q[2] + m[9] * q[3] + m[13],
      m[2] * q[1] + m[6] * q[2] + m[10] * q[3] + m[14],
      m[3] * q[1] + m[7] * q[2] + m[11] * q[3] + m[15]>>

applyMatrix(points, matrix) == [i \in 1..Len(points) |-> Matrix4_ofPoint(matrix, points[i])]

Sign(a) == IF a > 0 THEN 1 ELSE IF a < 0 THEN 0 - 1 ELSE 0

\* normalize, on the vectors the model writes: the null vector and the
\* vectors along one axis
normalize(v) ==
    IF v = <<0, 0, 0>> THEN <<0, 0, 1>>
    ELSE CHOOSE u \in {<<Sign(v[1]), Sign(v[2]), Sign(v[3])>>} :
            Cardinality({k \in 1..3 : v[k] # 0}) = 1

cross(a, b) ==
    <<a[2] * b[3] - a[3] * b[2], a[3] * b[1] - a[1] * b[3], a[1] * b[2] - a[2] * b[1]>>

samePoint(a, b) == a = b

triangulatePolygon(polygon) ==
    [i \in 1..Max(0, Len(polygon) - 2) |-> <<polygon[1], polygon[i + 1], polygon[i + 2]>>]

\* Matrix4.fromArray of three axes, each scaled, and an origin
fromAxes(xAxis, yAxis, zAxis, scale, origin) ==
    <<xAxis[1] * scale, xAxis[2] * scale, xAxis[3] * scale, 0,
      yAxis[1] * scale, yAxis[2] * scale, yAxis[3] * scale, 0,
      zAxis[1] * scale, zAxis[2] * scale, zAxis[3] * scale, 0,
      origin[1], origin[2], origin[3], 1>>

(***************************************************************************)
(* The geometry interpreter of ifcLiteImporter.ts.  A raw mesh is a list   *)
(* of points and a list of triangles of 0-based point indices; NoMesh is   *)
(* the undefined result.  byIdGet gives Undefined for NoRef, so a test for *)
(* an undefined reference is the test for an undefined entity.             *)
(***************************************************************************)
NoMesh == [ok |-> FALSE, points |-> <<>>, triangles |-> <<>>]
RawMesh(points, triangles) == [ok |-> TRUE, points |-> points, triangles |-> triangles]
NoVector == <<>>

\* x / 2 on the even numbers the model writes
Half(x) == CHOOSE h \in {x \div 2} : 2 * h = x

\* the first three coordinates of an entity of the given type
vectorOf(entity, type) ==
    IF entity = Undefined \/ entity.type # type THEN NoVector
    ELSE With(parseNumberTuple(arg(entity, 0)), LAMBDA coords :
            IF Len(coords) < 3 THEN NoVector ELSE <<coords[1], coords[2], coords[3]>>)

resolvePoint(byId, pointRef) ==
    IF pointRef = NoRef THEN NoVector
    ELSE vectorOf(byIdGet(byId, pointRef), "IFCCARTESIANPOINT")

resolveDirection(byId, dirRef) ==
    IF dirRef = NoRef THEN NoVector
    ELSE vectorOf(byIdGet(byId, dirRef), "IFCDIRECTION")

\* v ?? d
orElse(v, d) == IF v = NoVector THEN d ELSE v

\* normalize never gives a vector that is not finite, so the fallback axes
\* of lines 381-384 are never taken
resolveAxis2Placement3D(byId, ref) ==
    With(byIdGet(byId, ref), LAMBDA axis :
        IF ref = NoRef \/ axis = Undefined \/ axis.type # "IFCAXIS2PLACEMENT3D"
        THEN Matrix4_identity
        ELSE With(normalize(orElse(resolveDirection(byId, argRef(axis, 1)), <<0, 0, 1>>)),
                  LAMBDA zAxis :
             With(normalize(orElse(resolveDirection(byId, argRef(axis, 2)), <<1, 0, 0>>)),
                  LAMBDA xSeed :
             With(normalize(cross(zAxis, xSeed)), LAMBDA yAxis :
                fromAxes(normalize(cross(yAxis, zAxis)), yAxis, zAxis, 1,
                         orElse(resolvePoint(byId, argRef(axis, 0)), <<0, 0, 0>>))))))

\* Number.parseFloat(tr.args[3] ?? "1") || 1
scaleOf(factor) == IF factor.finite /\ factor.n # 0 THEN factor.n ELSE 1

resolveCartesianTransformation(byId, ref) ==
    With(byIdGet(byId, ref), LAMBDA tr :
        IF ref = NoRef \/ tr = Undefined
           \/ tr.type \notin {"IFCCARTESIANTRANSFORMATIONOPERATOR3D",
                              "IFCCARTESIANTRANSFORMATIONOPERATOR3DNONUNIFORM"}
        THEN Matrix4_identity
        ELSE With(normalize(orElse(resolveDirection(byId, argRef(tr, 1)), <<1, 0, 0>>)),
                  LAMBDA xAxis :
             With(normalize(orElse(resolveDirection(byId, argRef(tr, 2)), <<0, 1, 0>>)),
                  LAMBDA yAxis :
                fromAxes(xAxis, yAxis, normalize(cross(xAxis, yAxis)),
                         scaleOf(parseFloat(argOr(tr, 3, <<"1">>))),
                         orElse(resolvePoint(byId, argRef(tr, 0)), <<0, 0, 0>>)))))

RECURSIVE resolveObjectPlacement(_, _)
resolveObjectPlacement(byId, placementRef) ==
    With(byIdGet(byId, placementRef), LAMBDA placement :
        IF placementRef = NoRef \/ placement = Undefined
           \/ placement.type # "IFCLOCALPLACEMENT"
        THEN Matrix4_identity
        ELSE Matrix4_multiply(resolveObjectPlacement(byId, argRef(placement, 0)),
                              resolveAxis2Placement3D(byId, argRef(placement, 1))))

\* the points of the IFCCARTESIANPOINT entities among refs, in order
RECURSIVE polylinePoints(_, _)
polylinePoints(byId, refs) ==
    IF refs = <<>> THEN <<>>
    ELSE With(vectorOf(byIdGet(byId, Head(refs)), "IFCCARTESIANPOINT"), LAMBDA q :
            IF q = NoVector THEN polylinePoints(byId, Tail(refs))
            ELSE <<q>> \o polylinePoints(byId, Tail(refs)))

\* points.pop() when the last point is the first one again
openPolygon(all) ==
    IF Len(all) > 1 /\ samePoint(all[1], all[Len(all)])
    THEN SubSeq(all, 1, Len(all) - 1) ELSE all

\* the empty polygon stands for undefined
resolvePolylineCurve(byId, curveRef) ==
    With(byIdGet(byId, curveRef), LAMBDA curve :
        IF curve = Undefined \/ curve.type # "IFCPOLYLINE" THEN <<>>
        ELSE With(openPolygon(polylinePoints(byId, parseReferenceList(arg(curve, 0)))),
                  LAMBDA points : IF Len(points) >= 3 THEN points ELSE <<>>))

rectangle(halfX, halfY) ==
    << <<0 - halfX, 0 - halfY, 0>>, <<halfX, 0 - halfY, 0>>,
       <<halfX, halfY, 0>>, <<0 - halfX, halfY, 0>> >>

resolveProfilePolygon(byId, profileRef) ==
    With(byIdGet(byId, profileRef), LAMBDA profile :
        IF profile = Undefined THEN <<>>
        ELSE IF profile.type = "IFCRECTANGLEPROFILEDEF"
        THEN With(parseFloat(argOr(profile, 3, <<"0">>)), LAMBDA x :
             With(parseFloat(argOr(profile, 4, <<"0">>)), LAMBDA y :
                IF ~x.finite \/ ~y.finite \/ x.n = 0 \/ y.n = 0 THEN <<>>
                ELSE rectangle(Half(x.n), Half(y.n))))
        ELSE IF profile.type = "IFCARBITRARYCLOSEDPROFILEDEF"
        THEN With(argRef(profile, 2), LAMBDA curveRef :
                IF curveRef = NoRef THEN <<>> ELSE resolvePolylineCurve(byId, curveRef))
        ELSE <<>>)

meshFromTriangulatedFaceSet(faceSet, byId) ==
    With(byIdGet(byId, argRef(faceSet, 0)), LAMBDA pointList :
        IF pointList = Undefined \/ pointList.type # "IFCCARTESIANPOINTLIST3D" THEN NoMesh
        ELSE With(parsePointTupleList(arg(pointList, 0)), LAMBDA points :
             With(parseTriangleTupleList(arg(faceSet, 3)), LAMBDA triangles :
                IF Len(points) = 0 \/ Len(triangles) = 0 THEN NoMesh
                ELSE RawMesh(points, triangles))))

\* a point index that never finds the point
indexOfPointNever(points, q) == NoRef

\* pointIndex.get(key): the 0-based index of point q in points, or NoRef
indexOfPoint(points, q) ==
    IF \E i \in 1..Len(points) : points[i] = q
    THEN (CHOOSE i \in 1..Len(points) : points[i] = q) - 1
    ELSE NoRef

\* the loop over pointRefs of one poly loop; st = [points, polygon]
RECURSIVE brepLoop(_, _, _)
brepLoop(byId, pointRefs, st) ==
    IF pointRefs = <<>> THEN st
    ELSE With(vectorOf(byIdGet(byId, Head(pointRefs)), "IFCCARTESIANPOINT"), LAMBDA q :
            IF q = NoVector THEN brepLoop(byId, Tail(pointRefs), st)
            ELSE With(indexOfPoint(st.points, q), LAMBDA idx :
                    brepLoop(byId, Tail(pointRefs),
                        IF idx = NoRef
                        THEN [points |-> Append(st.points, q),
                              polygon |-> Append(st.polygon, Len(st.points))]
                        ELSE [points |-> st.points, polygon |-> Append(st.polygon, idx)])))

\* the loop over the bounds of one face; st = [points, triangles]
RECURSIVE brepBounds(_, _, _)
brepBounds(byId, bounds, st) ==
    IF bounds = <<>> THEN st
    ELSE With(byIdGet(byId, Head(bounds)), LAMBDA bound :
            IF bound = Undefined \/ bound.type \notin {"IFCFACEOUTERBOUND", "IFCFACEBOUND"}
            THEN brepBounds(byId, Tail(bounds), st)
            ELSE With(byIdGet(byId, argRef(bound, 0)), LAMBDA loop :
                    IF loop = Undefined \/ loop.type # "IFCPOLYLOOP"
                    THEN brepBounds(byId, Tail(bounds), st)
                    ELSE With(brepLoop(byId, parseReferenceList(arg(loop, 0)),
                                       [points |-> st.points, polygon |-> <<>>]),
                              LAMBDA r :
                                brepBounds(byId, Tail(bounds),
                                    [points |-> r.points,
                                     triangles |-> st.triangles
                                                   \o triangulatePolygon(r.polygon)]))))

\* the loop over the faces of the shell
RECURSIVE brepFaces(_, _, _)
brepFaces(byId, faceRefs, st) ==
    IF faceRefs = <<>> THEN st
    ELSE With(byIdGet(byId, Head(faceRefs)), LAMBDA face :
            IF face = Undefined \/ face.type # "IFCFACE"
            THEN brepFaces(byId, Tail(faceRefs), st)
            ELSE brepFaces(byId, Tail(faceRefs),
                           brepBounds(byId, parseReferenceList(arg(face, 0)), st)))

meshFromFacetedBrep(brep, byId) ==
    With(byIdGet(byId, argRef(brep, 0)), LAMBDA shell :
        IF shell = Undefined \/ shell.type # "IFCCLOSEDSHELL" THEN NoMesh
        ELSE With(brepFaces(byId, parseReferenceList(arg(shell, 0)),
                            [points |-> <<>>, triangles |-> <<>>]),
                  LAMBDA r : IF Len(r.points) = 0 \/ Len(r.triangles) = 0 THEN NoMesh
                             ELSE RawMesh(r.points, r.triangles)))

\* an extrusion that leaves the two caps open
extrudeSidesOnly(profile, solidPlacement, unitDir, depth) ==
    LET n == Len(profile)
        top == [i \in 1..n |-> <<profile[i][1] + unitDir[1] * depth,
                                 profile[i][2] + unitDir[2] * depth,
                                 profile[i][3] + unitDir[3] * depth>>]
        sides == [k \in 1..(2 * n) |->
                    IF k % 2 = 1
                    THEN <<(k - 1) \div 2, (((k - 1) \div 2) + 1) % n,
                           n + ((((k - 1) \div 2) + 1) % n)>>
                    ELSE <<(k - 1) \div 2, n + ((((k - 1) \div 2) + 1) % n),
                           n + ((k - 1) \div 2)>>]
    IN  RawMesh(applyMatrix(profile \o top, solidPlacement), sides)

\* the points and triangles of lines 271-298
extrude(profile, solidPlacement, unitDir, depth) ==
    LET n == Len(profile)
        top == [i \in 1..n |-> <<profile[i][1] + unitDir[1] * depth,
                                 profile[i][2] + unitDir[2] * depth,
                                 profile[i][3] + unitDir[3] * depth>>]
        caps == [k \in 1..(2 * (n - 2)) |->
                   IF k % 2 = 1 THEN <<0, ((k + 1) \div 2) + 1, (k + 1) \div 2>>
                   ELSE <<n, n + ((k + 1) \div 2), n + ((k + 1) \div 2) + 1>>]
        sides == [k \in 1..(2 * n) |->
                    IF k % 2 = 1
                    THEN <<(k - 1) \div 2, (((k - 1) \div 2) + 1) % n,
                           n + ((((k - 1) \div 2) + 1) % n)>>
                    ELSE <<(k - 1) \div 2, n + ((((k - 1) \div 2) + 1) % n),
                           n + ((k - 1) \div 2)>>]
    IN  RawMesh(applyMatrix(profile \o top, solidPlacement), caps \o sides)

meshFromExtrudedAreaSolid(extruded, byId) ==
    With(argRef(extruded, 0), LAMBDA sweptAreaRef :
        IF sweptAreaRef = NoRef THEN NoMesh
        ELSE With(resolveProfilePolygon(byId, sweptAreaRef), LAMBDA profile :
                IF Len(profile) < 3 THEN NoMesh
                ELSE With(parseFloat(argOr(extruded, 3, <<"0">>)), LAMBDA depth :
                        IF ~depth.finite \/ depth.n = 0 THEN NoMesh
                        ELSE extrude(profile,
                                     resolveAxis2Placement3D(byId, argRef(extruded, 1)),
                                     normalize(orElse(resolveDirection(byId, argRef(extruded, 2)),
                                                      <<0, 0, 1>>)),
                                     depth.n))))

\* meshFromRepresentationItem returns the raw mesh and the visited set it
\* leaves behind; firstMappedMesh is the loop over the items of a mapped
\* representation.
RECURSIVE meshFromRepresentationItem(_, _, _)
RECURSIVE firstMappedMesh(_, _, _, _)
meshFromRepresentationItem(itemRef, byId, seen) ==
    IF itemRef \in seen THEN [mesh |-> NoMesh, visited |-> seen]
    ELSE With(byIdGet(byId, itemRef), LAMBDA item :
        LET marked == seen \cup {itemRef}
            none == [mesh |-> NoMesh, visited |-> marked]
        IN  IF item = Undefined THEN none
            ELSE IF item.type = "IFCTRIANGULATEDFACESET"
            THEN [mesh |-> meshFromTriangulatedFaceSet(item, byId), visited |-> marked]
            ELSE IF item.type = "IFCFACETEDBREP"
            THEN [mesh |-> meshFromFacetedBrep(item, byId), visited |-> marked]
            ELSE IF item.type = "IFCEXTRUDEDAREASOLID"
            THEN [mesh |-> meshFromExtrudedAreaSolid(item, byId), visited |-> marked]
            ELSE IF item.type \in {"IFCBOOLEANCLIPPINGRESULT", "IFCBOOLEANRESULT"}
            THEN With(argRef(item, 1), LAMBDA firstOperand :
                    IF firstOperand # NoRef
                    THEN meshFromRepresentationItem(firstOperand, byId, marked)
                    ELSE none)
            ELSE IF item.type = "IFCMAPPEDITEM"
            THEN With(byIdGet(byId, argRef(item, 0)), LAMBDA map :
                    IF map = Undefined \/ map.type # "IFCREPRESENTATIONMAP" THEN none
                    ELSE With(byIdGet(byId, argRef(map, 1)), LAMBDA rep :
                            IF rep = Undefined \/ rep.type # "IFCSHAPEREPRESENTATION" THEN none
                            ELSE firstMappedMesh(
                                    parseReferenceList(arg(rep, 3)), byId, marked,
                                    resolveCartesianTransformation(byId, argRef(item, 1)))))
            ELSE none)

firstMappedMesh(repItems, byId, seen, mapMatrix) ==
    IF repItems = <<>> THEN [mesh |-> NoMesh, visited |-> seen]
    ELSE With(meshFromRepresentationItem(Head(repItems), byId, seen), LAMBDA r :
            IF ~r.mesh.ok THEN firstMappedMesh(Tail(repItems), byId, r.visited, mapMatrix)
            ELSE [mesh |-> RawMesh(applyMatrix(r.mesh.points, mapMatrix), r.mesh.triangles),
                  visited |-> r.visited])

\* A surface mesh: the flat position and index buffers; NoSurface is the
\* undefined result of tryExtractMesh.
NoSurface == [ok |-> FALSE, position |-> <<>>, index |-> <<>>]

buildSurfaceMesh(points, triangles) ==
    [ok |-> TRUE,
     position |-> [k \in 1..(3 * Len(points)) |-> points[((k - 1) \div 3) + 1][((k - 1) % 3) + 1]],
     index |-> [k \in 1..(3 * Len(triangles)) |->
                   triangles[((k - 1) \div 3) + 1][((k - 1) % 3) + 1]]]

\* the loop of tryExtractMesh over the items of one representation
RECURSIVE firstItemMesh(_, _)
firstItemMesh(repItems, byId) ==
    IF repItems = <<>> THEN NoMesh
    ELSE With(meshFromRepresentationItem(Head(repItems), byId, {}).mesh, LAMBDA rawMesh :
            IF ~rawMesh.ok THEN firstItemMesh(Tail(repItems), byId) ELSE rawMesh)

\* the loop of tryExtractMesh over the representations of the product shape
RECURSIVE firstRepMesh(_, _)
firstRepMesh(reps, byId) ==
    IF reps = <<>> THEN NoMesh
    ELSE With(byIdGet(byId, Head(reps)), LAMBDA rep :
            IF rep = Undefined \/ rep.type # "IFCSHAPEREPRESENTATION"
            THEN firstRepMesh(Tail(reps), byId)
            ELSE With(firstItemMesh(parseReferenceList(arg(rep, 3)), byId), LAMBDA rawMesh :
                    IF ~rawMesh.ok THEN firstRepMesh(Tail(reps), byId) ELSE rawMesh))

tryExtractMesh(entity, byId) ==
    With(byIdGet(byId, argRef(entity, 6)), LAMBDA productShape :
        IF productShape = Undefined \/ productShape.type # "IFCPRODUCTDEFINITIONSHAPE"
        THEN NoSurface
        ELSE With(resolveObjectPlacement(byId, argRef(entity, 5)), LAMBDA placementMatrix :
             With(firstRepMesh(parseReferenceList(arg(productShape, 2)), byId),
                  LAMBDA rawMesh :
                    IF ~rawMesh.ok THEN NoSurface
                    ELSE buildSurfaceMesh(applyMatrix(rawMesh.points, placementMatrix),
                                          rawMesh.triangles))))

(***************************************************************************)
(* The tree builder of ifcLiteImporter.ts.  The nodes made so far are kept *)
(* in creation order; a node is a FolderNode or a MeshNode, carries the id *)
(* createTreeNode was called with, and lists its children by position.     *)
(***************************************************************************)
toDisplayName(entity) ==
    IF entity = Undefined THEN <<"Unknown">>
    ELSE With(unquote(arg(entity, 2)), LAMBDA name :
            IF Len(name) > 0 THEN <<entity.type, " ", "-", " ">> \o name
            ELSE <<entity.type>>)

FolderNode(entityId, name) ==
    [entityId |-> entityId, kind |-> "FolderNode", name |-> name, mesh |-> NoSurface,
     children |-> <<>>]
MeshNode(entityId, mesh, name) ==
    [entityId |-> entityId, kind |-> "MeshNode", name |-> name, mesh |-> mesh,
     children |-> <<>>]

createIfcNode(entityId, entity, byId) ==
    With(IF entity = Undefined THEN NoSurface ELSE tryExtractMesh(entity, byId),
         LAMBDA extracted :
            IF extracted.ok THEN MeshNode(entityId, extracted, toDisplayName(entity))
            ELSE FolderNode(entityId, toDisplayName(entity)))

\* childMap.get(id) ?? []
childrenOf(map, id) == IF id \in DOMAIN map THEN map[id] ELSE <<>>

\* a link that writes refs over the list the parent has
linkReplacing(map, parent, refs) ==
    IF parent = NoRef THEN map
    ELSE [k \in DOMAIN map \cup {parent} |-> IF k = parent THEN refs ELSE map[k]]

\* map.set(parent, [...(map.get(parent) ?? []), ...refs]) if parent is defined
link(map, parent, refs) ==
    IF parent = NoRef THEN map
    ELSE [k \in DOMAIN map \cup {parent} |->
            IF k = parent THEN childrenOf(map, parent) \o refs ELSE map[k]]

RECURSIVE buildChildrenMapFrom(_, _, _)
buildChildrenMapFrom(entities, i, map) ==
    IF i > Len(entities) THEN map
    ELSE buildChildrenMapFrom(entities, i + 1,
            IF entities[i].type = "IFCRELAGGREGATES"
            THEN link(map, argRef(entities[i], 4), parseReferenceList(arg(entities[i], 5)))
            ELSE IF entities[i].type = "IFCRELCONTAINEDINSPATIALSTRUCTURE"
            THEN link(map, argRef(entities[i], 5), parseReferenceList(arg(entities[i], 4)))
            ELSE map)

buildChildrenMap(entities) == buildChildrenMapFrom(entities, 1, [k \in {} |-> <<>>])

\* node.add(child) on the node at position parent
add(ns, parent, child) ==
    [ns EXCEPT ![parent].children = Append(@, child)]

\* a visited set that remembers nothing
visitedHasNothing(seen, entityId) == FALSE

\* visited.has(entityId) of createTreeNode
visitedHas(seen, entityId) == entityId \in seen

(***************************************************************************)
(* IfcLiteParser of ifcLiteParser.ts, the parser driven by one regular     *)
(* expression over the whole data section.                                 *)
(***************************************************************************)
RECURSIVE RegexParser_splitTopLevelFrom(_, _, _)
RegexParser_splitTopLevelFrom(v, i, st) ==
    IF i > Len(v) THEN st
    ELSE LET ch == v[i] IN
        IF ch = "'" /\ ~(i > 1 /\ v[i - 1] = "\\")
        THEN RegexParser_splitTopLevelFrom(v, i + 1,
                [st EXCEPT !.inString = ~@, !.current = Append(@, ch)])
        ELSE LET depth == IF st.inString THEN st.depth
                          ELSE IF ch = "(" THEN st.depth + 1
                          ELSE IF ch = ")" THEN st.depth - 1
                          ELSE st.depth
             IN  IF ~st.inString /\ ch = "," /\ depth = 0
                 THEN RegexParser_splitTopLevelFrom(v, i + 1,
                        [st EXCEPT !.result = Append(@, trim(st.current)),
                                   !.current = <<>>, !.depth = depth])
                 ELSE RegexParser_splitTopLevelFrom(v, i + 1,
                        [st EXCEPT !.current = Append(@, ch), !.depth = depth])

RegexParser_splitTopLevel(v) ==
    LET st == RegexParser_splitTopLevelFrom(v, 1,
                [result |-> <<>>, current |-> <<>>, depth |-> 0, inString |-> FALSE])
    IN  IF Len(trim(st.current)) > 0 THEN Append(st.result, trim(st.current))
        ELSE st.result

\* ENTITY_REGEX = /#(\d+)\s*=\s*([A-Z0-9_]+)\s*\((.*)\);/gis tried at index i of
\* the data section: (.*) is greedy and, under the s flag, crosses line ends,
\* so the match runs to the last ");" of the section.
RegexParser_matchAt(d, i) ==
    LET n  == Len(d)
        eq == skipSpaces(d, i + 2)
        ty == skipSpaces(d, eq + 1)
        op == skipSpaces(d, ty + 1)
        closers == {j \in (op + 1)..(n - 1) : d[j] = ")" /\ d[j + 1] = ";"}
    IN  IF /\ i + 1 <= n /\ d[i] = "#" /\ IsDigits(d[i + 1])
           /\ eq <= n /\ d[eq] = "="
           /\ ty <= n /\ IsWord(d[ty])
           /\ op <= n /\ d[op] = "("
           /\ closers # {}
        THEN LET close == CHOOSE j \in closers : \A k \in closers : j >= k
             IN  [matched |-> TRUE, id |-> d[i + 1], type |-> d[ty],
                  body |-> SubSeq(d, op + 1, close - 1),
                  raw |-> SubSeq(d, i, close + 1), next |-> close + 2]
        ELSE [matched |-> FALSE, id |-> "", type |-> "", body |-> <<>>,
              raw |-> <<>>, next |-> i + 1]

\* dataSection.matchAll(ENTITY_REGEX): leftmost matches, each search resuming
\* where the previous match ended
RECURSIVE RegexParser_matchAll(_, _, _)
RegexParser_matchAll(d, from, entities) ==
    LET hits == {i \in from..Len(d) : RegexParser_matchAt(d, i).matched}
    IN  IF hits = {} THEN entities
        ELSE LET match == RegexParser_matchAt(d, CHOOSE i \in hits : \A j \in hits : i <= j)
             IN  RegexParser_matchAll(d, match.next,
                    Append(entities,
                        [id |-> parseInt(match.id),
                         type |-> match.type,
                         args |-> RegexParser_splitTopLevel(match.body),
                         raw |-> match.raw]))

RegexParser_parse(t) ==
    [header   |-> extractHeaderSection(t),
     schemas  |-> extractSchemas(t),
     entities |-> RegexParser_matchAll(extractDataSection(t), 1, <<>>)]

(***************************************************************************)
(* IFCLiteSerializer (ifcx-core).                                          *)
(***************************************************************************)
IFC_SCHEMA_VERSIONS == <<"IFC2X3", "IFC4", "IFC4X1", "IFC4X2", "IFC4X3">>

\* lines.join("\n") and args.join(",")
RECURSIVE join(_, _)
join(parts, sep) ==
    IF parts = <<>> THEN <<>>
    ELSE IF Len(parts) = 1 THEN parts[1]
    ELSE parts[1] \o <<sep>> \o join(Tail(parts), sep)

\* text.split(";"): the pieces between the semicolons
RECURSIVE splitAtSemicolons(_, _, _)
splitAtSemicolons(s, i, st) ==
    IF i > Len(s) THEN Append(st.chunks, st.current)
    ELSE IF s[i] = ";"
         THEN splitAtSemicolons(s, i + 1,
                [chunks |-> Append(st.chunks, st.current), current |-> <<>>])
    ELSE splitAtSemicolons(s, i + 1, [st EXCEPT !.current = Append(@, s[i])])

IFCLiteSerializer_quote(v) == <<"'">> \o doubleQuotes(v) \o <<"'">>

makeEntity(id, type, args) == [id |-> id, type |-> type, args |-> args]

IFCLiteSerializer_entityLine(entity) ==
    <<"#", ToString(entity.id), "=", entity.type, "(">>
        \o join(entity.args, ",") \o <<")", ";">>

IFCLiteSerializer_stringify(d) ==
    join(<< <<"ISO", "-", "10303", "-", "21", ";">>,
            <<"HEADER", ";">>,
            <<"FILE_DESCRIPTION", "(", "(", "'", "ViewDefinition", " ", "[",
              "CoordinationView", "]", "'", ")", ",", "'", "2", ";", "1", "'", ")", ";">>,
            <<"FILE_NAME", "(", "'", "ifc5cad", "-", "export", ".", "ifc", "'", ",",
              "'", "2026", "-", "01", "-", "01T00", ":", "00", ":", "00", "'", ",",
              "(", "'", "ifc5cad", "'", ")", ",", "(", "'", "ifc5cad", "'", ")", ",",
              "'", "ifc", "-", "lite", "'", ",", "'", "ifc5cad", "'", ",",
              "'", "'", ")", ";">>,
            <<"FILE_SCHEMA", "(", "(", "'", d.schema, "'", ")", ")", ";">>,
            <<"ENDSEC", ";">>,
            <<"DATA", ";">> >>
         \o [i \in 1..Len(d.entities) |-> IFCLiteSerializer_entityLine(d.entities[i])]
         \o << <<"ENDSEC", ";">>, <<"END", "-", "ISO", "-", "10303", "-", "21", ";">> >>,
         "\n")

\* /FILE_SCHEMA\s*\(\s*\(\s*'([^']+)'\s*\)\s*\)\s*;/i tried at index i
IFCLiteSerializer_matchSchemaAt(t, i) ==
    LET a == skipSpaces(t, i + 1)
        b == skipSpaces(t, a + 1)
        q == skipSpaces(t, b + 1)
        closers == {j \in (q + 1)..Len(t) : t[j] = "'"}
        c == IF closers = {} THEN 0 ELSE CHOOSE j \in closers : \A k \in closers : j <= k
        d == skipSpaces(t, c + 1)
        e == skipSpaces(t, d + 1)
        f == skipSpaces(t, e + 1)
    IN  IF /\ toUpperCase(t[i]) = "FILE_SCHEMA"
           /\ a <= Len(t) /\ t[a] = "("
           /\ b <= Len(t) /\ t[b] = "("
           /\ q <= Len(t) /\ t[q] = "'"
           /\ c > q + 1
           /\ d <= Len(t) /\ t[d] = ")"
           /\ e <= Len(t) /\ t[e] = ")"
           /\ f <= Len(t) /\ t[f] = ";"
        THEN [found |-> TRUE, group |-> SubSeq(t, q + 1, c - 1)]
        ELSE [found |-> FALSE, group |-> <<>>]

IFCLiteSerializer_parseSchema(t) ==
    LET hits == {i \in 1..Len(t) : IFCLiteSerializer_matchSchemaAt(t, i).found}
        group == IF hits = {} THEN <<>>
                 ELSE IFCLiteSerializer_matchSchemaAt(t,
                        CHOOSE i \in hits : \A j \in hits : i <= j).group
        schema == IF hits = {} THEN <<"IFC4">> ELSE toUpperCaseText(group)
    IN  IF \E k \in 1..Len(IFC_SCHEMA_VERSIONS) : schema = <<IFC_SCHEMA_VERSIONS[k]>>
        THEN schema[1] ELSE "IFC4"

RECURSIVE IFCLiteSerializer_splitArgsFrom(_, _, _)
IFCLiteSerializer_splitArgsFrom(input, i, st) ==
    IF i > Len(input) THEN st
    ELSE LET char == input[i] IN
        IF char = "'" /\ st.inString /\ i + 1 <= Len(input) /\ input[i + 1] = "'"
        THEN IFCLiteSerializer_splitArgsFrom(input, i + 2,
                [st EXCEPT !.current = @ \o <<"'", "'">>])
        ELSE IF char = "'"
        THEN IFCLiteSerializer_splitArgsFrom(input, i + 1,
                [st EXCEPT !.inString = ~@, !.current = Append(@, char)])
        ELSE LET depth == IF st.inString THEN st.depth
                          ELSE IF char = "(" THEN st.depth + 1
                          ELSE IF char = ")" THEN st.depth - 1
                          ELSE st.depth
             IN  IF ~st.inString /\ char = "," /\ depth = 0
                 THEN IFCLiteSerializer_splitArgsFrom(input, i + 1,
                        [st EXCEPT !.result = Append(@, trim(st.current)),
                                   !.current = <<>>, !.depth = depth])
                 ELSE IFCLiteSerializer_splitArgsFrom(input, i + 1,
                        [st EXCEPT !.current = Append(@, char), !.depth = depth])

IFCLiteSerializer_splitArgs(input) ==
    LET st == IFCLiteSerializer_splitArgsFrom(input, 1,
                [result |-> <<>>, current |-> <<>>, depth |-> 0, inString |-> FALSE])
    IN  IF Len(trim(st.current)) > 0 THEN Append(st.result, trim(st.current))
        ELSE st.result

\* DATA_ENTITY_REGEX = /#(\d+)\s*=\s*([A-Z0-9_]+)\s*\((.*)\)\s*;/is tried at
\* index i of a trimmed chunk followed by ";": the chunk holds no semicolon,
\* so the closing parenthesis is the last symbol of the chunk.
IFCLiteSerializer_matchAt(chunk, i) ==
    LET n  == Len(chunk)
        eq == skipSpaces(chunk, i + 2)
        ty == skipSpaces(chunk, eq + 1)
        op == skipSpaces(chunk, ty + 1)
    IN  IF /\ i + 1 <= n /\ chunk[i] = "#" /\ IsDigits(chunk[i + 1])
           /\ eq <= n /\ chunk[eq] = "="
           /\ ty <= n /\ IsWord(chunk[ty])
           /\ op <= n /\ chunk[op] = "("
           /\ op < n /\ chunk[n] = ")"
        THEN [matched |-> TRUE, id |-> chunk[i + 1], type |-> chunk[ty],
              body |-> SubSeq(chunk, op + 1, n - 1)]
        ELSE [matched |-> FALSE, id |-> "", type |-> "", body |-> <<>>]

RECURSIVE IFCLiteSerializer_parseChunks(_, _)
IFCLiteSerializer_parseChunks(chunks, entities) ==
    IF chunks = <<>> THEN entities
    ELSE LET chunk == trim(Head(chunks))
             hits == {i \in 1..Len(chunk) : IFCLiteSerializer_matchAt(chunk, i).matched}
         IN  IF Len(chunk) = 0 \/ hits = {}
             THEN IFCLiteSerializer_parseChunks(Tail(chunks), entities)
             ELSE LET match == IFCLiteSerializer_matchAt(chunk,
                                   CHOOSE i \in hits : \A j \in hits : i <= j)
                  IN  IFCLiteSerializer_parseChunks(Tail(chunks),
                        Append(entities,
                            [id |-> parseInt(match.id),
                             type |-> toUpperCase(match.type),
                             args |-> IFCLiteSerializer_splitArgs(match.body)]))

IFCLiteSerializer_parseEntities(t) ==
    LET dataStart == indexOfMarker(t, "DATA")
        dataEnd == indexOfMarkerFrom(t, "ENDSEC", dataStart)
        dataSection == SubSeq(t, dataStart + 2, IF dataEnd > 0 THEN dataEnd - 1 ELSE Len(t))
    IN  IF dataStart = 0 THEN <<>>
        ELSE IFCLiteSerializer_parseChunks(
                splitAtSemicolons(dataSection, 1, [chunks |-> <<>>, current |-> <<>>]), <<>>)

IFCLiteSerializer_parse(t) ==
    [schema   |-> IFCLiteSerializer_parseSchema(t),
     entities |-> IFCLiteSerializer_parseEntities(t),
     source   |-> t]

(***************************************************************************)
(* SpecQuote: a string is quoted by the writer and decoded by the reader.  *)
(***************************************************************************)
QuoteAlphabet == {"a", "'", " ", "$"}

NoDocument == [header |-> <<>>, schemas |-> <<>>, entities |-> <<>>]

QuoteIdle == str = <<>> /\ quoted = <<>> /\ decoded = <<>>
SplitIdle == value = <<>> /\ tokens = <<>>
ParseIdle == stmts = <<>> /\ text = <<>> /\ parser = "none" /\ ifc = NoDocument
SerializerIdle == doc = NoDocument /\ parsed = NoDocument
ImportIdle == childMap = <<>> /\ nodes = <<>> /\ stack = <<>> /\ visited = {}
MeshIdle == surface = NoSurface
NoCalls == [IfcLiteExporter |-> 0, IFCLiteExporter |-> 0]
ExportIdle == tree = [name |-> <<>>, nodes |-> <<>>] /\ calls = NoCalls

InitQuote ==
    /\ pc = "quote"
    /\ str \in SeqsUpTo(QuoteAlphabet, MaxStrLen)
    /\ quoted = <<>>
    /\ decoded = <<>>
    /\ SplitIdle
    /\ ParseIdle
    /\ SerializerIdle
    /\ ImportIdle
    /\ MeshIdle
    /\ ExportIdle

Quote ==
    /\ pc = "quote"
    /\ quoted' = quote(str)
    /\ pc' = "unquote"
    /\ UNCHANGED <<str, decoded, splitVars, parseVars, serializerVars, importVars, surface, tree, calls>>

Unquote ==
    /\ pc = "unquote"
    /\ decoded' = unquote(quoted)
    /\ pc' = "done"
    /\ UNCHANGED <<str, quoted, splitVars, parseVars, serializerVars, importVars, surface, tree, calls>>

NextQuote == Quote \/ Unquote

SpecQuote == InitQuote /\ [][NextQuote]_vars

\* C5: unquote(quote(s)) = s for every string s, the empty string and
\* strings holding single quotes included.
LiteralRoundTrip == pc = "done" => decoded = str

\* C5 witness: a string holding two adjacent quotes has been quoted and decoded.
LiteralRoundTripWitness ==
    /\ pc = "done"
    /\ Len(str) >= 2
    /\ \E i \in 1..(Len(str) - 1) : str[i] = "'" /\ str[i + 1] = "'"
    /\ Len(quoted) = Len(str) + 2 + Cardinality({i \in 1..Len(str) : str[i] = "'"})

(***************************************************************************)
(* SpecSplit: splitTopLevel applied to an argument text.                   *)
(***************************************************************************)
SplitAlphabet == {"a", ",", "(", ")", "'", " "}

InitSplit ==
    /\ pc = "split"
    /\ value \in SeqsUpTo(SplitAlphabet, MaxArgLen)
    /\ tokens = <<>>
    /\ QuoteIdle
    /\ ParseIdle
    /\ SerializerIdle
    /\ ImportIdle
    /\ MeshIdle
    /\ ExportIdle

SplitTopLevel ==
    /\ pc = "split"
    /\ tokens' = splitTopLevel(value)
    /\ pc' = "done"
    /\ UNCHANGED <<value, quoteVars, parseVars, serializerVars, importVars, surface, tree, calls>>

NextSplit == SplitTopLevel

SpecSplit == InitSplit /\ [][NextSplit]_vars

\* The grammar of an argument text, stated without the scanner: a position
\* lies inside a literal when an odd number of quote characters precedes it
\* (a doubled quote inside a literal counts twice and leaves it open), and
\* its depth is the number of unclosed parentheses outside literals.
QuotesBefore(v, i) == Cardinality({j \in 1..(i - 1) : v[j] = "'"})
InLiteral(v, i) == QuotesBefore(v, i) % 2 = 1
DepthBefore(v, i) ==
    Cardinality({j \in 1..(i - 1) : v[j] = "(" /\ ~InLiteral(v, j)})
    - Cardinality({j \in 1..(i - 1) : v[j] = ")" /\ ~InLiteral(v, j)})
WellFormedText(v) ==
    /\ QuotesBefore(v, Len(v) + 1) % 2 = 0
    /\ DepthBefore(v, Len(v) + 1) = 0
    /\ \A i \in 1..Len(v) : DepthBefore(v, i + 1) >= 0
TopLevelCommas(v) ==
    {i \in 1..Len(v) : v[i] = "," /\ ~InLiteral(v, i) /\ DepthBefore(v, i) = 0}

\* C6: for every well-formed argument text splitTopLevel returns exactly
\* (number of top-level commas + 1) tokens, also when the first, a middle or
\* the last token is empty.
SplitTokenCount ==
    (pc = "done" /\ WellFormedText(value))
        => Len(tokens) = Cardinality(TopLevelCommas(value)) + 1

\* The text after the last top-level comma (the whole text when there is none).
LastSegment(v) ==
    LET commas == TopLevelCommas(v)
        last == IF commas = {} THEN 0 ELSE CHOOSE i \in commas : \A j \in commas : i >= j
    IN  SubSeq(v, last + 1, Len(v))
IsBlank(s) == \A i \in 1..Len(s) : IsSpace(s[i])

\* C6 as amended: for every well-formed argument text splitTopLevel returns
\* (number of top-level commas + 1) tokens when the text after the last
\* top-level comma holds a character other than white space, and one token
\* fewer when that text is empty or blank; an empty first or middle token is
\* returned as an empty token.
SplitTokenCountAmended ==
    (pc = "done" /\ WellFormedText(value))
        => Len(tokens) = Cardinality(TopLevelCommas(value))
                            + (IF IsBlank(LastSegment(value)) THEN 0 ELSE 1)

\* C6 witness: a text with a comma inside parentheses, a top-level comma and
\* an empty first token was split in two.
SplitTokenCountWitness ==
    /\ pc = "done"
    /\ WellFormedText(value)
    /\ Cardinality(TopLevelCommas(value)) = 1
    /\ \E i \in 1..Len(value) : value[i] = "," /\ i \notin TopLevelCommas(value)
    /\ Len(tokens) = 2
    /\ tokens[1] = <<>>

\* the text without its white space
WithoutSpace(v) == SelectSeq(v, LAMBDA c : ~IsSpace(c))

\* the text without a comma at its end
WithoutLastComma(v) ==
    IF v # <<>> /\ v[Len(v)] = "," THEN SubSeq(v, 1, Len(v) - 1) ELSE v

\* C19: for a text with balanced parentheses and closed literals every
\* token splitTopLevel returns has balanced parentheses and closed literals,
\* so no token ends at a comma inside parentheses or inside a literal, and
\* the tokens are the pieces of the text in input order: joined by commas
\* they give the text back, white space and a comma at the end aside.
TokensKeepNesting ==
    (pc = "done" /\ WellFormedText(value)) =>
        /\ \A k \in 1..Len(tokens) : WellFormedText(tokens[k])
        /\ WithoutSpace(join(tokens, ","))
              \in {WithoutSpace(value), WithoutLastComma(WithoutSpace(value))}

(***************************************************************************)
(* SpecSplitEarlier: the splitTopLevel of ifcLiteParser.ts, for which a     *)
(* quote that follows a backslash is an ordinary character, on argument    *)
(* texts with literals and backslashes.                                    *)
(***************************************************************************)
EarlierAlphabet == {"a", ",", "'", "\\"}

InitSplitEarlier ==
    /\ pc = "split"
    /\ value \in SeqsUpTo(EarlierAlphabet, MaxArgLen)
    /\ tokens = <<>>
    /\ QuoteIdle
    /\ ParseIdle
    /\ SerializerIdle
    /\ ImportIdle
    /\ MeshIdle
    /\ ExportIdle

SplitTopLevelEarlier ==
    /\ pc = "split"
    /\ tokens' = RegexParser_splitTopLevel(value)
    /\ pc' = "done"
    /\ UNCHANGED <<value, quoteVars, parseVars, serializerVars, importVars, surface, tree, calls>>

NextSplitEarlier == SplitTopLevelEarlier

SpecSplitEarlier == InitSplitEarlier /\ [][NextSplitEarlier]_vars

(***************************************************************************)
(* SpecParse: a file is written from a sequence of statements and parsed,  *)
(* by the scanning parser or by the regular-expression parser.             *)
(***************************************************************************)
\* The statements a data section is written from.  ok says whether the
\* statement has the shape #id=TYPE(args); id and type are what it declares,
\* written is the type as spelled in the text.
StatementPool ==
    { [text |-> <<"#", "1", "=", "A", "(", ")">>,
       ok |-> TRUE, id |-> 1, type |-> "A", written |-> "A"],
      [text |-> <<"#", "2", "=", "B", "(", "'", "x", ";", "'", ",", "#", "1", ")">>,
       ok |-> TRUE, id |-> 2, type |-> "B", written |-> "B"],
      [text |-> <<"#", "1", "=", "B", "(", "$", ")">>,
       ok |-> TRUE, id |-> 1, type |-> "B", written |-> "B"],
      [text |-> <<"#", "3", " ", "=", " ", "a", " ", "(", "\n",
                  "(", "#", "1", ",", "#", "2", ")", "\n", ")">>,
       ok |-> TRUE, id |-> 3, type |-> "A", written |-> "a"],
      [text |-> <<"A", "(", "#", "1", ")">>,
       ok |-> FALSE, id |-> 0, type |-> "", written |-> ""],
      [text |-> <<"#", "1", "=", "A", "(">>,
       ok |-> FALSE, id |-> 0, type |-> "", written |-> ""],
      [text |-> <<"#", "=", "A", "(", ")">>,
       ok |-> FALSE, id |-> 0, type |-> "", written |-> ""],
      [text |-> <<"junk">>,
       ok |-> FALSE, id |-> 0, type |-> "", written |-> ""],
      [text |-> <<"#", "2", " ", "B", "(", ")">>,
       ok |-> FALSE, id |-> 0, type |-> "", written |-> ""],
      [text |-> <<>>,
       ok |-> FALSE, id |-> 0, type |-> "", written |-> ""] }

FileHeader ==
    <<"ISO", "-", "10303", "-", "21", ";", "\n",
      "HEADER", ";", "\n",
      "FILE_SCHEMA", "(", "(", "'", "IFC4X3_ADD2", "'", ")", ")", ";", "\n",
      "ENDSEC", ";", "\n",
      "DATA", ";", "\n">>

FileFooter ==
    <<"ENDSEC", ";", "\n", "END", "-", "ISO", "-", "10303", "-", "21", ";">>

RECURSIVE DataLines(_)
DataLines(ss) ==
    IF ss = <<>> THEN <<>>
    ELSE Head(ss).text \o <<";", "\n">> \o DataLines(Tail(ss))

FileText(ss) == FileHeader \o DataLines(ss) \o FileFooter

InitParse ==
    /\ pc = "parse"
    /\ stmts \in SeqsUpTo(StatementPool, MaxStatements)
    /\ text = FileText(stmts)
    /\ parser = "none"
    /\ ifc = NoDocument
    /\ QuoteIdle
    /\ SplitIdle
    /\ SerializerIdle
    /\ ImportIdle
    /\ MeshIdle
    /\ ExportIdle

Parse ==
    /\ pc = "parse"
    /\ ifc' = IfcLiteParser_parse(text)
    /\ parser' = "scanner"
    /\ pc' = "done"
    /\ UNCHANGED <<stmts, text, quoteVars, splitVars, serializerVars, importVars, surface, tree, calls>>

ParseByRegex ==
    /\ pc = "parse"
    /\ ifc' = RegexParser_parse(text)
    /\ parser' = "regex"
    /\ pc' = "done"
    /\ UNCHANGED <<stmts, text, quoteVars, splitVars, serializerVars, importVars, surface, tree, calls>>

NextParse == Parse \/ ParseByRegex

SpecParse == InitParse /\ [][NextParse]_vars

OkStatements(ss) == SelectSeq(ss, LAMBDA x : x.ok)
ParsedIdTypes == [i \in 1..Len(ifc.entities) |->
                    <<ifc.entities[i].id, ifc.entities[i].type>>]

\* C7: the regular-expression parser yields one entity per #id=TYPE(args);
\* statement of the data section, in file order, the i-th carrying the id and
\* the type written in the i-th statement.
RegexParseOnePerStatement ==
    (pc = "done" /\ parser = "regex" /\ \A i \in 1..Len(stmts) : stmts[i].ok)
        => /\ Len(ifc.entities) = Len(stmts)
           /\ \A i \in 1..Len(stmts) :
                /\ ifc.entities[i].id = stmts[i].id
                /\ ifc.entities[i].type = stmts[i].written

UniqueEntityIds ==
    (pc = "done" /\ parser = "scanner")
        => \A i, j \in 1..Len(ifc.entities) :
                ifc.entities[i].id = ifc.entities[j].id => i = j

(***************************************************************************)
(* SpecScan: the scanning parser on files written from statements that all *)
(* have the shape #id=TYPE(args): semicolons inside string literals, after *)
(* a doubled quote and inside parentheses, and arguments on several lines. *)
(***************************************************************************)
ScanPool ==
    { [text |-> <<"#", "1", "=", "A", "(", ")">>,
       ok |-> TRUE, id |-> 1, type |-> "A", written |-> "A"],
      [text |-> <<"#", "2", "=", "B", "(", "'", "x", ";", "'", ",", "#", "1", ")">>,
       ok |-> TRUE, id |-> 2, type |-> "B", written |-> "B"],
      [text |-> <<"#", "3", "=", "A", "(", "'", "a", "'", "'", ";", "b", "'", ")">>,
       ok |-> TRUE, id |-> 3, type |-> "A", written |-> "A"],
      [text |-> <<"#", "4", "=", "A", "(", "$", ",", "(", "\n", "#", "1", "\n", ")", ")">>,
       ok |-> TRUE, id |-> 4, type |-> "A", written |-> "A"],
      [text |-> <<"#", "5", "=", "A", "(", "(", "1", ";", "2", ")", ")">>,
       ok |-> TRUE, id |-> 5, type |-> "A", written |-> "A"] }

InitScan ==
    /\ pc = "parse"
    /\ stmts \in SeqsUpTo(ScanPool, MaxStatements)
    /\ text = FileText(stmts)
    /\ parser = "none"
    /\ ifc = NoDocument
    /\ QuoteIdle
    /\ SplitIdle
    /\ SerializerIdle
    /\ ImportIdle
    /\ MeshIdle
    /\ ExportIdle

NextScan == Parse

SpecScan == InitScan /\ [][NextScan]_vars

\* the positions of the statement text that hold a ";" outside a literal and
\* inside an open parenthesis
NestedSemicolons(v) ==
    {i \in 1..Len(v) : v[i] = ";" /\ ~InLiteral(v, i) /\ DepthBefore(v, i) > 0}

\* the positions of the statement text that hold a ";" inside a literal
LiteralSemicolons(v) == {i \in 1..Len(v) : v[i] = ";" /\ InLiteral(v, i)}

\* statement i of the file has become one entity that carries its whole text
ParsedWhole(i) ==
    \E k \in 1..Len(ifc.entities) :
        ifc.entities[k].id = stmts[i].id /\ ifc.entities[k].raw = stmts[i].text

\* C17: a ";" inside a still open parenthesis, outside any literal, does not
\* end the statement: a statement that holds one is parsed as one entity
\* that carries the whole statement.
SemicolonAtDepthZeroOnly ==
    pc = "done" =>
        \A i \in 1..Len(stmts) :
            NestedSemicolons(stmts[i].text) # {} => ParsedWhole(i)

\* C18: a ";" inside a string literal, also after a doubled quote, does not
\* end the statement: a file whose statements hold semicolons only inside
\* literals gives one entity per statement, in order, each carrying its
\* whole statement, also when the statement runs over several lines.
SemicolonInLiteralKept ==
    (pc = "done" /\ \A i \in 1..Len(stmts) : NestedSemicolons(stmts[i].text) = {})
        => /\ Len(ifc.entities) = Len(stmts)
           /\ \A i \in 1..Len(stmts) :
                /\ ifc.entities[i].id = stmts[i].id
                /\ ifc.entities[i].raw = stmts[i].text

\* a statement with a semicolon after a doubled quote, one with a semicolon
\* in a plain literal and one that runs over several lines were parsed
SemicolonInLiteralKeptWitness ==
    /\ pc = "done"
    /\ Len(stmts) = 3
    /\ Len(ifc.entities) = 3
    /\ \E i \in 1..3 : \E q \in LiteralSemicolons(stmts[i].text) :
          stmts[i].text[q - 1] = "'" /\ stmts[i].text[q - 2] = "'"
    /\ \E i \in 1..3 : \E q \in LiteralSemicolons(stmts[i].text) :
          stmts[i].text[q - 1] # "'"
    /\ \E i \in 1..3 : \E q \in 1..Len(stmts[i].text) : stmts[i].text[q] = "\n"

(***************************************************************************)
(* SpecSerializer: a document built with makeEntity is written by          *)
(* IFCLiteSerializer.stringify and read back by IFCLiteSerializer.parse.   *)
(***************************************************************************)
SerializerEntityPool ==
    { makeEntity(1, "IFCPROJECT",
        << <<"'", "g", "'">>, <<"$">>, <<"'", "Demo", "'">>, <<"$">>, <<"$">>,
           <<"$">>, <<"$">>, <<"$">> >>),
      makeEntity(2, "IFCWALL",
        << <<"'", "w", "'">>, <<"$">>, IFCLiteSerializer_quote(<<"a", ";", "b">>) >>),
      makeEntity(3, "IFCRELAGGREGATES",
        << <<"'", "r", "'">>, <<"$">>, <<"$">>, <<"$">>, <<"#", "1">>,
           <<"(", "#", "2", ",", "#", "4", ")">> >>),
      makeEntity(4, "IFCWALL",
        << <<"'", "v", "'">>, <<"$">>, IFCLiteSerializer_quote(<<"it", "'", "s">>) >>),
      makeEntity(5, "IFCWALL",
        << <<"'", "u", "'">>, <<"$">>, IFCLiteSerializer_quote(<<"a", ",", "(", "b">>) >>) }

InitSerializer ==
    /\ pc = "stringify"
    /\ doc \in {[schema |-> IFC_SCHEMA_VERSIONS[k], entities |-> es] :
                    k \in 1..Len(IFC_SCHEMA_VERSIONS),
                    es \in SeqsUpTo(SerializerEntityPool, MaxDocEntities)}
    /\ parsed = NoDocument
    /\ text = <<>>
    /\ stmts = <<>> /\ parser = "none" /\ ifc = NoDocument
    /\ QuoteIdle
    /\ SplitIdle
    /\ ImportIdle
    /\ MeshIdle
    /\ ExportIdle

Stringify ==
    /\ pc = "stringify"
    /\ text' = IFCLiteSerializer_stringify(doc)
    /\ pc' = "parse"
    /\ UNCHANGED <<stmts, parser, ifc, doc, parsed, quoteVars, splitVars, importVars, surface, tree, calls>>

ParseSerialized ==
    /\ pc = "parse"
    /\ parsed' = IFCLiteSerializer_parse(text)
    /\ pc' = "done"
    /\ UNCHANGED <<parseVars, doc, quoteVars, splitVars, importVars, surface, tree, calls>>

NextSerializer == Stringify \/ ParseSerialized

SpecSerializer == InitSerializer /\ [][NextSerializer]_vars

\* C8: parse(stringify(doc)) has the schema and the entity list of doc (same
\* ids, types and argument tokens, in the same order), also when an argument
\* is a string quoted by IFCLiteSerializer.quote from arbitrary text.
SerializerRoundTrip ==
    pc = "done" => /\ parsed.schema = doc.schema
                   /\ parsed.entities = doc.entities

(***************************************************************************)
(* IfcLiteService.import: the text is parsed and the tree is built by      *)
(* IfcLiteImporter.import.  The recursion of createTreeNode is run one     *)
(* call at a time: a frame of the stack is a call that is inside its loop  *)
(* over the children.                                                      *)
(***************************************************************************)
MaxRels == 3    \* most relationship statements of a generated file
MaxNodes == 12  \* most nodes the importer is let make

RootNode == 1

\* the node the next created child is added to
currentParent(st) == IF st = <<>> THEN RootNode ELSE st[Len(st)].node

\* the loop of the caller moves on to its next child
advance(st) ==
    IF st = <<>> THEN st ELSE [st EXCEPT ![Len(st)].next = @ + 1]

\* a createTreeNode that runs its loop over the children for every node made
createTreeNodeEveryKind(ns, st, seen, byId, map, entityId) ==
    With(byIdGet(byId, entityId), LAMBDA entity :
    With(Append(ns, createIfcNode(entityId, entity, byId)), LAMBDA made :
        IF entity = Undefined \/ visitedHas(seen, entityId)
        THEN [nodes |-> add(made, currentParent(st), Len(made)),
              stack |-> advance(st), visited |-> seen]
        ELSE [nodes |-> made,
              stack |-> Append(st, [entityId |-> entityId, node |-> Len(made), next |-> 1]),
              visited |-> seen \cup {entityId}]))

\* a createTreeNode that takes every entity with a shape reference for a leaf
createTreeNodeShapeLeaf(ns, st, seen, byId, map, entityId) ==
    With(byIdGet(byId, entityId), LAMBDA entity :
    With(Append(ns, createIfcNode(entityId, entity, byId)), LAMBDA made :
        IF entity = Undefined \/ visitedHas(seen, entityId)
        THEN [nodes |-> add(made, currentParent(st), Len(made)),
              stack |-> advance(st), visited |-> seen]
        ELSE IF made[Len(made)].kind = "FolderNode" /\ argRef(entity, 6) = NoRef
        THEN [nodes |-> made,
              stack |-> Append(st, [entityId |-> entityId, node |-> Len(made), next |-> 1]),
              visited |-> seen \cup {entityId}]
        ELSE [nodes |-> add(made, currentParent(st), Len(made)),
              stack |-> advance(st), visited |-> seen \cup {entityId}]))

\* createTreeNode(entityId) up to the start of its loop: the node is made;
\* it is returned at once, and added by the caller, when there is no entity,
\* when the id has been visited and when the node is no FolderNode
createTreeNode(ns, st, seen, byId, map, entityId) ==
    With(byIdGet(byId, entityId), LAMBDA entity :
    With(Append(ns, createIfcNode(entityId, entity, byId)), LAMBDA made :
        IF entity = Undefined \/ visitedHas(seen, entityId)
        THEN [nodes |-> add(made, currentParent(st), Len(made)),
              stack |-> advance(st), visited |-> seen]
        ELSE IF made[Len(made)].kind = "FolderNode"
        THEN [nodes |-> made,
              stack |-> Append(st, [entityId |-> entityId, node |-> Len(made), next |-> 1]),
              visited |-> seen \cup {entityId}]
        ELSE [nodes |-> add(made, currentParent(st), Len(made)),
              stack |-> advance(st), visited |-> seen \cup {entityId}]))

\* IfcLiteService.import up to the first createTreeNode call
ImportBegin ==
    /\ pc = "import"
    /\ \E parsedDoc \in {IfcLiteParser_parse(text)} :
       \E map \in {buildChildrenMap(parsedDoc.entities)} :
          LET entities == parsedDoc.entities
              root == FolderNode(NoRef, <<"IFC">>)
              projects == {i \in 1..Len(entities) : entities[i].type = "IFCPROJECT"}
          IN  /\ ifc' = parsedDoc
              /\ parser' = "scanner"
              /\ childMap' = map
              /\ IF projects = {}
                 THEN /\ nodes' = add(<<root, FolderNode(NoRef, <<"IFC", " ", "Model">>)>>,
                                      RootNode, 2)
                      /\ stack' = <<>>
                      /\ visited' = {}
                      /\ pc' = "done"
                 ELSE LET project == entities[CHOOSE i \in projects : \A j \in projects : i <= j]
                      IN  \E r \in {createTreeNode(<<root>>, <<>>, {}, entities, map, project.id)} :
                             /\ nodes' = r.nodes
                             /\ stack' = r.stack
                             /\ visited' = r.visited
                             /\ pc' = IF r.stack = <<>> THEN "done" ELSE "loop"
    /\ UNCHANGED <<stmts, text, quoteVars, splitVars, serializerVars, surface, tree, calls>>

\* one turn of the loop of createTreeNode: the call for the next child
VisitChild ==
    /\ pc = "loop"
    /\ Len(nodes) < MaxNodes
    /\ LET frame == stack[Len(stack)]
           kids == childrenOf(childMap, frame.entityId)
       IN  /\ frame.next <= Len(kids)
           /\ \E r \in {createTreeNode(nodes, stack, visited, ifc.entities, childMap,
                                        kids[frame.next])} :
                  /\ nodes' = r.nodes
                  /\ stack' = r.stack
                  /\ visited' = r.visited
    /\ UNCHANGED <<pc, parseVars, childMap, quoteVars, splitVars, serializerVars, surface, tree, calls>>

\* the loop of createTreeNode is over: the node is returned and added by the
\* caller, which is import itself for the project
ReturnNode ==
    /\ pc = "loop"
    /\ LET frame == stack[Len(stack)]
           kids == childrenOf(childMap, frame.entityId)
           rest == SubSeq(stack, 1, Len(stack) - 1)
       IN  /\ frame.next > Len(kids)
           /\ nodes' = add(nodes, currentParent(rest), frame.node)
           /\ stack' = advance(rest)
           /\ pc' = IF rest = <<>> THEN "done" ELSE "loop"
    /\ UNCHANGED <<parseVars, childMap, visited, quoteVars, splitVars, serializerVars, surface, tree, calls>>

(***************************************************************************)
(* The files handed to import: a project #1, a site #2 and an element #3   *)
(* with or without a tessellated shape, and relationships chosen from a    *)
(* pool that lets an entity list itself, its parent or the entity #9 that  *)
(* the file does not hold.                                                 *)
(***************************************************************************)
Ref(n) == <<"#", ToString(n)>>
List(parts) == <<"(">> \o join(parts, ",") \o <<")">>
Statement(id, type, args) == [text |-> Ref(id) \o <<"=", type>> \o List(args)]
Refs(ids) == List([i \in 1..Len(ids) |-> Ref(ids[i])])

ElementStatements(withShape) ==
    << Statement(1, "IFCPROJECT", << <<"'", "g", "'">>, <<"$">>, <<"'", "P", "'">> >>),
       Statement(2, "IFCSITE", << <<"'", "g", "'">>, <<"$">>, <<"'", "S", "'">> >>) >>
    \o IF withShape
       THEN << Statement(3, "IFCWALL",
                         << <<"'", "g", "'">>, <<"$">>, <<"'", "W", "'">>, <<"$">>, <<"$">>,
                            <<"$">>, Ref(4) >>),
               Statement(4, "IFCPRODUCTDEFINITIONSHAPE", << <<"$">>, <<"$">>, Refs(<<5>>) >>),
               Statement(5, "IFCSHAPEREPRESENTATION",
                         << <<"$">>, <<"$">>, <<"$">>, Refs(<<6>>) >>),
               Statement(6, "IFCTRIANGULATEDFACESET",
                         << Ref(7), <<"$">>, <<"$">>,
                            List(<< List(<< <<"1">>, <<"2">>, <<"3">> >>) >>) >>),
               Statement(7, "IFCCARTESIANPOINTLIST3D",
                         << List(<< List(<< <<"0">>, <<"0">>, <<"0">> >>),
                                    List(<< <<"1">>, <<"0">>, <<"0">> >>),
                                    List(<< <<"0">>, <<"1">>, <<"0">> >>) >>) >>) >>
       ELSE << Statement(3, "IFCWALL", << <<"'", "g", "'">>, <<"$">>, <<"$">> >>) >>

ChildLists == << <<1>>, <<2>>, <<3>>, <<2, 3>>, <<3, 1>>, <<9>> >>

\* the pool of relationships: every parent with every list of children; a
\* list of the element or of the missing entity alone is a containment
RelPool ==
    [k \in 1..(3 * Len(ChildLists)) |->
        LET kids == ChildLists[((k - 1) % Len(ChildLists)) + 1]
        IN  [parent |-> ((k - 1) \div Len(ChildLists)) + 1,
             children |-> kids,
             contained |-> kids \in {<<3>>, <<9>>}]]

RelStatement(id, rel) ==
    IF rel.contained
    THEN Statement(id, "IFCRELCONTAINEDINSPATIALSTRUCTURE",
                   << <<"'", "g", "'">>, <<"$">>, <<"$">>, <<"$">>,
                      Refs(rel.children), Ref(rel.parent) >>)
    ELSE Statement(id, "IFCRELAGGREGATES",
                   << <<"'", "g", "'">>, <<"$">>, <<"$">>, <<"$">>,
                      Ref(rel.parent), Refs(rel.children) >>)

\* the ways to choose at most n relationships, in the order of the pool
RECURSIVE Choices(_, _)
Choices(from, n) ==
    IF n = 0 THEN {<<>>}
    ELSE {<<>>} \cup UNION {{<<k>> \o rest : rest \in Choices(k + 1, n - 1)} :
                            k \in from..Len(RelPool)}

ImportFile(withShape, rels) ==
    ElementStatements(withShape)
    \o [i \in 1..Len(rels) |-> RelStatement(10 + i, RelPool[rels[i]])]

InitImport ==
    /\ pc = "import"
    /\ \E withShape \in BOOLEAN :
       \E rels \in Choices(1, MaxRels) :
          stmts = ImportFile(withShape, rels)
    /\ text = FileText(stmts)
    /\ parser = "none"
    /\ ifc = NoDocument
    /\ ImportIdle
    /\ QuoteIdle
    /\ SplitIdle
    /\ SerializerIdle
    /\ MeshIdle
    /\ ExportIdle

NextImport == ImportBegin \/ VisitChild \/ ReturnNode

SpecImport == InitImport /\ [][NextImport]_vars

\* the nodes made for entity id
NodesOf(id) == {n \in 1..Len(nodes) : nodes[n].entityId = id}

\* C1: when import has returned, the tree holds at most one node for every
\* entity id, whatever cycles the aggregation and containment relationships
\* of the file form.
OneNodePerEntity ==
    pc = "done" => \A id \in 1..MaxNumber : Cardinality(NodesOf(id)) <= 1

\* the ids listed below the ids of a set, through at most n relationships
RECURSIVE Below(_, _)
Below(ids, n) ==
    IF n = 0 THEN ids
    ELSE Below(ids \cup UNION {{childrenOf(childMap, i)[k] : k \in 1..Len(childrenOf(childMap, i))} :
                               i \in ids}, n - 1)

\* the entity is listed, directly or through other entities, below itself
ListedBelowItself(id) ==
    id \in Below({childrenOf(childMap, id)[k] : k \in 1..Len(childrenOf(childMap, id))},
                 Cardinality(DOMAIN childMap))

\* the sum of the values of function w over the set S
RECURSIVE SumOver(_, _)
SumOver(S, w) ==
    IF S = {} THEN 0
    ELSE LET x == CHOOSE y \in S : TRUE
         IN  w[x] + SumOver(S \ {x}, w)

\* What is left of the build: the children every entity not yet visited
\* brings, the children the calls in progress have not reached yet, and the
\* returns of those calls.
Remaining ==
    LET unvisited == {ifc.entities[i].id : i \in 1..Len(ifc.entities)} \ visited
    IN  SumOver(unvisited, [id \in unvisited |-> 2 + Len(childrenOf(childMap, id))])
        + SumOver(1..Len(stack),
                  [f \in 1..Len(stack) |->
                      Len(childrenOf(childMap, stack[f].entityId)) + 1 - stack[f].next])
        + Len(stack)

\* the build is not over and can take its next step
CanStep ==
    /\ stack # <<>>
    /\ LET frame == stack[Len(stack)]
           kids == childrenOf(childMap, frame.entityId)
       IN  \/ frame.next <= Len(kids) /\ Len(nodes) < MaxNodes
           \/ frame.next = Len(kids) + 1

\* C2: import returns on every file, also when the aggregation and
\* containment relationships form a cycle: while the tree is being built a
\* next step is always possible and what is left of the build, a natural
\* number, gets smaller with every step.
ImportTerminates ==
    /\ [](pc = "loop" => CanStep /\ Remaining \in Nat)
    /\ [][pc = "loop" => Remaining' < Remaining]_vars

\* import has returned on a file whose project is listed below itself through
\* another entity, and on its way it has met the project a second time
ImportTerminatesWitness ==
    /\ pc = "done"
    /\ ListedBelowItself(1)
    /\ 1 \notin {childrenOf(childMap, 1)[k] :
                            k \in 1..Len(childrenOf(childMap, 1))}
    /\ Cardinality(NodesOf(1)) > 1

\* the ids listed under entity id by the relationships of the file
ListedUnder(id) == {childrenOf(childMap, id)[k] : k \in 1..Len(childrenOf(childMap, id))}

\* the entity of the file that node n was made for
EntityOfNode(n) == byIdGet(ifc.entities, nodes[n].entityId)

\* the nodes that list node n as a child
ParentsOfNode(n) ==
    {p \in 1..Len(nodes) : \E k \in 1..Len(nodes[p].children) : nodes[p].children[k] = n}

\* C21: an entity whose shape resolves to a mesh is a leaf of the tree: its
\* node is a MeshNode without children, no call of createTreeNode runs its
\* loop over the children for it, and every node made for an entity hangs
\* below a FolderNode of an entity that lists it (or below the root).
GeometryIsLeaf ==
    pc \in {"loop", "done"} =>
        /\ \A n \in 2..Len(nodes) :
              (EntityOfNode(n) # Undefined /\ tryExtractMesh(EntityOfNode(n), ifc.entities).ok)
                  => /\ nodes[n].kind = "MeshNode"
                     /\ nodes[n].children = <<>>
        /\ \A n \in 1..Len(nodes) : nodes[n].kind = "MeshNode" => nodes[n].children = <<>>
        /\ \A f \in 1..Len(stack) : nodes[stack[f].node].kind = "FolderNode"
        /\ \A n \in 2..Len(nodes) : \A p \in ParentsOfNode(n) :
              /\ nodes[p].kind = "FolderNode"
              /\ p # RootNode => nodes[n].entityId \in ListedUnder(nodes[p].entityId)

\* import has returned on a file whose wall has a mesh and lists children:
\* the wall is a MeshNode without children and an entity that is listed
\* under the wall alone has no node
GeometryIsLeafWitness ==
    /\ pc = "done"
    /\ \E n \in 2..Len(nodes) :
          /\ nodes[n].kind = "MeshNode"
          /\ nodes[n].entityId = 3
          /\ nodes[n].children = <<>>
    /\ \E id \in ListedUnder(3) :
          /\ NodesOf(id) = {}
          /\ \A other \in {1, 2} : id \notin ListedUnder(other)

(***************************************************************************)
(* SpecFallback: import of files whose wall #3 carries a shape reference   *)
(* that gives no mesh: the item of the representation is of a type the     *)
(* interpreter does not know, a face set whose only face lists two         *)
(* indices, a boolean result that is its own first operand, or the product *)
(* shape is not in the file.                                               *)
(***************************************************************************)
MaxFallbackRels == 2    \* most relationship statements of such a file

ShapeFaults == {"unsupported", "malformed", "selfReference", "unresolvable"}

FallbackStatements(fault) ==
    << Statement(1, "IFCPROJECT", << <<"'", "g", "'">>, <<"$">>, <<"'", "P", "'">> >>),
       Statement(2, "IFCSITE", << <<"'", "g", "'">>, <<"$">>, <<"'", "S", "'">> >>),
       Statement(3, "IFCWALL",
                 << <<"'", "g", "'">>, <<"$">>, <<"'", "W", "'">>, <<"$">>, <<"$">>,
                    <<"$">>, Ref(4) >>) >>
    \o IF fault = "unresolvable" THEN <<>>
       ELSE << Statement(4, "IFCPRODUCTDEFINITIONSHAPE", << <<"$">>, <<"$">>, Refs(<<5>>) >>),
               Statement(5, "IFCSHAPEREPRESENTATION",
                         << <<"$">>, <<"$">>, <<"$">>, Refs(<<6>>) >>),
               IF fault = "unsupported" THEN Statement(6, "IFCSPHERE", << <<"1">> >>)
               ELSE IF fault = "selfReference"
               THEN Statement(6, "IFCBOOLEANRESULT", << <<"$">>, Ref(6), Ref(6) >>)
               ELSE Statement(6, "IFCTRIANGULATEDFACESET",
                              << Ref(7), <<"$">>, <<"$">>,
                                 List(<< List(<< <<"1">>, <<"2">> >>) >>) >>),
               Statement(7, "IFCCARTESIANPOINTLIST3D",
                         << List(<< List(<< <<"0">>, <<"0">>, <<"0">> >>),
                                    List(<< <<"1">>, <<"0">>, <<"0">> >>),
                                    List(<< <<"0">>, <<"1">>, <<"0">> >>) >>) >>) >>

InitFallback ==
    /\ pc = "import"
    /\ \E fault \in ShapeFaults :
       \E rels \in Choices(1, MaxFallbackRels) :
          stmts = FallbackStatements(fault)
                  \o [i \in 1..Len(rels) |-> RelStatement(10 + i, RelPool[rels[i]])]
    /\ text = FileText(stmts)
    /\ parser = "none"
    /\ ifc = NoDocument
    /\ ImportIdle
    /\ QuoteIdle
    /\ SplitIdle
    /\ SerializerIdle
    /\ MeshIdle
    /\ ExportIdle

NextFallback == ImportBegin \/ VisitChild \/ ReturnNode

SpecFallback == InitFallback /\ [][NextFallback]_vars

\* the entity ids of the children of node n, in order
ChildEntityIds(n) ==
    [k \in 1..Len(nodes[n].children) |-> nodes[nodes[n].children[k]].entityId]

\* the entity carries a shape reference and the interpreter gives no mesh
ShapeWithoutMesh(entity) ==
    /\ entity # Undefined
    /\ argRef(entity, 6) # NoRef
    /\ ~tryExtractMesh(entity, ifc.entities).ok

\* C22: when import has returned, every entity that is reachable from the
\* project and carries a shape reference that gives no mesh has a FolderNode,
\* and the first node made for it has one child per id the relationships
\* list under the entity, in their order.
FallbackContainer ==
    pc = "done" =>
        \A id \in Below({1}, Len(ifc.entities)) :
            ShapeWithoutMesh(byIdGet(ifc.entities, id)) =>
                /\ NodesOf(id) # {}
                /\ \A n \in NodesOf(id) : nodes[n].kind = "FolderNode"
                /\ \E first \in NodesOf(id) :
                      /\ \A n \in NodesOf(id) : first <= n
                      /\ ChildEntityIds(first) = childrenOf(childMap, id)

\* import has returned on a file whose wall names a representation of an
\* unknown item type: the wall, listed under the project, is a FolderNode
\* that holds a node for the site listed under it
FallbackContainerWitness ==
    /\ pc = "done"
    /\ \E i \in 1..Len(ifc.entities) : ifc.entities[i].type = "IFCSPHERE"
    /\ ShapeWithoutMesh(byIdGet(ifc.entities, 3))
    /\ 3 \in ListedUnder(1)
    /\ \E n \in NodesOf(3) :
          /\ nodes[n].kind = "FolderNode"
          /\ ChildEntityIds(n) = childrenOf(childMap, 3)
          /\ \E k \in 1..Len(nodes[n].children) :
                /\ ChildEntityIds(n)[k] = 2
                /\ nodes[nodes[n].children[k]].name = <<"IFCSITE", " ", "-", " ", "S">>

(***************************************************************************)
(* SpecAdjacency: import of files of a project #1, a site #2 and the walls *)
(* #3 and #4 without shape, with relationships whose lists hold references *)
(* and other elements.  A relationship statement of stmts carries, next to *)
(* its text, what it was written from: the parent (NoRef for $), the kind  *)
(* and the elements of the list, each the id it refers to or NoRef.        *)
(***************************************************************************)
MaxAdjacencyRels == 2   \* most relationship statements of such a file

\* an element of a list: its text and the id it refers to
Element(elementText, id) == [text |-> elementText, id |-> id]

ElementLists ==
    { << Element(Ref(2), 2) >>,
      << Element(Ref(3), 3), Element(<<"$">>, NoRef), Element(<<" ">> \o Ref(2) \o <<" ">>, 2) >>,
      << Element(<<"7">>, NoRef), Element(Ref(3), 3) >>,
      << Element(<<"(">> \o Ref(2) \o <<")">>, NoRef), Element(Ref(4), 4) >> }

AdjacencyRels ==
    {[parent |-> parent, contained |-> contained, elements |-> elements] :
        parent \in {1, NoRef}, contained \in BOOLEAN, elements \in ElementLists}

AdjacencyStatement(id, rel) ==
    LET list == List([k \in 1..Len(rel.elements) |-> rel.elements[k].text])
        whole == IF rel.parent = NoRef THEN <<"$">> ELSE Ref(rel.parent)
    IN  [text |-> Statement(id, IF rel.contained THEN "IFCRELCONTAINEDINSPATIALSTRUCTURE"
                                ELSE "IFCRELAGGREGATES",
                            << <<"'", "g", "'">>, <<"$">>, <<"$">>, <<"$">> >>
                            \o IF rel.contained THEN <<list, whole>> ELSE <<whole, list>>).text,
         rel |-> rel]

AdjacencyFile(rels) ==
    << Statement(1, "IFCPROJECT", << <<"'", "g", "'">>, <<"$">>, <<"'", "P", "'">> >>),
       Statement(2, "IFCSITE", << <<"'", "g", "'">>, <<"$">>, <<"'", "S", "'">> >>),
       Statement(3, "IFCWALL", << <<"'", "g", "'">>, <<"$">>, <<"'", "W", "'">> >>),
       Statement(4, "IFCWALL", << <<"'", "g", "'">>, <<"$">>, <<"'", "V", "'">> >>) >>
    \o [i \in 1..Len(rels) |-> AdjacencyStatement(10 + i, rels[i])]

InitAdjacency ==
    /\ pc = "import"
    /\ \E rels \in SeqsUpTo(AdjacencyRels, MaxAdjacencyRels) : stmts = AdjacencyFile(rels)
    /\ text = FileText(stmts)
    /\ parser = "none"
    /\ ifc = NoDocument
    /\ ImportIdle
    /\ QuoteIdle
    /\ SplitIdle
    /\ SerializerIdle
    /\ MeshIdle
    /\ ExportIdle

NextAdjacency == ImportBegin \/ VisitChild \/ ReturnNode

SpecAdjacency == InitAdjacency /\ [][NextAdjacency]_vars

\* the relationship statements of the file that name the parent, in order
RelationshipsNaming(parent) ==
    SelectSeq(SubSeq(stmts, 5, Len(stmts)), LAMBDA statement : statement.rel.parent = parent)

\* the ids of the references of the lists of these relationships, in order
RECURSIVE ListedIds(_)
ListedIds(named) ==
    IF named = <<>> THEN <<>>
    ELSE With(SelectSeq(Head(named).rel.elements, LAMBDA element : element.id # NoRef),
              LAMBDA references : [k \in 1..Len(references) |-> references[k].id])
         \o ListedIds(Tail(named))

\* C24: the adjacency map holds, for every id some relationship names as
\* its parent, the ids of the references of the lists of these
\* relationships, in the order of the file and of the lists; a relationship
\* without parent reference adds nothing and elements that are no reference
\* are dropped; the children of the project node follow that order.
AdjacencyInOrder ==
    pc \in {"loop", "done"} =>
        /\ DOMAIN childMap = {id \in {1} : RelationshipsNaming(id) # <<>>}
        /\ \A id \in DOMAIN childMap : childMap[id] = ListedIds(RelationshipsNaming(id))
        /\ pc = "done" => ChildEntityIds(2) = ListedIds(RelationshipsNaming(1))

\* import has returned on a file with a containment and an aggregation that
\* name the project, a list with a bare number and a list with $ and a
\* reference between blanks: the project node holds the walls and the site
\* in the order of the two lists
AdjacencyInOrderWitness ==
    /\ pc = "done"
    /\ Len(stmts) = 6
    /\ stmts[5].rel.contained /\ ~stmts[6].rel.contained
    /\ childMap = (1 :> <<3, 3, 2>>)
    /\ ChildEntityIds(2) = <<3, 3, 2>>

(***************************************************************************)
(* The geometry interpreter on its own: a file that holds one product with *)
(* one representation item is parsed, then tryExtractMesh is called for    *)
(* the product as createIfcNode calls it.  The files cover the five item   *)
(* kinds of meshFromRepresentationItem; the triangulated face sets list    *)
(* one triangle whose 1-based indices range over and beyond the points.    *)
(***************************************************************************)
MaxPoints == 3

Number(n) == <<ToString(n)>>
Triple(a, b, c) == List(<<Number(a), Number(b), Number(c)>>)
\* the i-th point of a point list: corners of the unit cube, then further up
PointTriple(i) == Triple((i - 1) % 2, ((i - 1) \div 2) % 2, (i - 1) \div 4)

ItemKinds == {"faceset", "boolean", "mapped"}

ProductStatements(item) ==
    << Statement(1, "IFCWALL",
                 << <<"'", "g", "'">>, <<"$">>, <<"'", "W", "'">>, <<"$">>, <<"$">>,
                    <<"$">>, Ref(2) >>),
       Statement(2, "IFCPRODUCTDEFINITIONSHAPE", << <<"$">>, <<"$">>, Refs(<<3>>) >>),
       Statement(3, "IFCSHAPEREPRESENTATION", << <<"$">>, <<"$">>, <<"$">>, Refs(<<item>>) >>) >>

FaceSetStatements(count, a, b, c) ==
    << Statement(10, "IFCTRIANGULATEDFACESET",
                 << Ref(11), <<"$">>, <<"$">>, List(<< Triple(a, b, c) >>) >>),
       Statement(11, "IFCCARTESIANPOINTLIST3D",
                 << List([i \in 1..count |-> PointTriple(i)]) >>) >>

FaceSetFile(kind, count, a, b, c) ==
    IF kind = "faceset" THEN ProductStatements(10) \o FaceSetStatements(count, a, b, c)
    ELSE IF kind = "boolean"
    THEN ProductStatements(4)
         \o << Statement(4, "IFCBOOLEANCLIPPINGRESULT", << <<"$">>, Ref(10), Ref(5) >>) >>
         \o FaceSetStatements(count, a, b, c)
    ELSE ProductStatements(4)
         \o << Statement(4, "IFCMAPPEDITEM", << Ref(5), <<"$">> >>),
               Statement(5, "IFCREPRESENTATIONMAP", << <<"$">>, Ref(6) >>),
               Statement(6, "IFCSHAPEREPRESENTATION",
                         << <<"$">>, <<"$">>, <<"$">>, Refs(<<10>>) >>) >>
         \o FaceSetStatements(count, a, b, c)

\* a face set of two triangles, (a, b, c) and (d, a, b), over count points
TwoTriangleFile(count, a, b, c, d) ==
    ProductStatements(10)
    \o << Statement(10, "IFCTRIANGULATEDFACESET",
                    << Ref(11), <<"$">>, <<"$">>,
                       List(<< Triple(a, b, c), Triple(d, a, b) >>) >>),
          Statement(11, "IFCCARTESIANPOINTLIST3D",
                    << List([i \in 1..count |-> PointTriple(i)]) >>) >>

\* a faceted brep of one face, a loop over the first corners points
BrepFile(corners) ==
    ProductStatements(4)
    \o << Statement(4, "IFCFACETEDBREP", << Ref(5) >>),
          Statement(5, "IFCCLOSEDSHELL", << Refs(<<6>>) >>),
          Statement(6, "IFCFACE", << Refs(<<7>>) >>),
          Statement(7, "IFCFACEOUTERBOUND", << Ref(8), <<"$">> >>),
          Statement(8, "IFCPOLYLOOP", << Refs([i \in 1..corners |-> 10 + i]) >>) >>
    \o [i \in 1..corners |-> Statement(10 + i, "IFCCARTESIANPOINT", << PointTriple(i) >>)]

\* a faceted brep of one face with two bounds, the loops #20 and #21.  A loop
\* lists points by number: i for the entity #(10 + i), 0 for the entity #9
\* that the file does not hold.  The point after the last has the
\* coordinates of the first.
BrepLoopsFile(first, second) ==
    LET loopRefs(loop) ==
            Refs([k \in 1..Len(loop) |-> IF loop[k] = 0 THEN 9 ELSE 10 + loop[k]])
    IN  ProductStatements(4)
        \o << Statement(4, "IFCFACETEDBREP", << Ref(5) >>),
              Statement(5, "IFCCLOSEDSHELL", << Refs(<<6>>) >>),
              Statement(6, "IFCFACE", << Refs(<<7, 8>>) >>),
              Statement(7, "IFCFACEOUTERBOUND", << Ref(20), <<"$">> >>),
              Statement(8, "IFCFACEBOUND", << Ref(21), <<"$">> >>),
              Statement(20, "IFCPOLYLOOP", << loopRefs(first) >>),
              Statement(21, "IFCPOLYLOOP", << loopRefs(second) >>) >>
        \o [i \in 1..(MaxPoints + 1) |->
               Statement(10 + i, "IFCCARTESIANPOINT",
                         << PointTriple(IF i = MaxPoints + 1 THEN 1 ELSE i) >>)]

FirstLoops == { <<1, 2, 3, MaxPoints + 1>>, <<2, 0, 3, 1, 2>>, <<3, 3>> }

\* an extruded rectangle of the given even side and depth
ExtrudedFile(side, depth) ==
    ProductStatements(4)
    \o << Statement(4, "IFCEXTRUDEDAREASOLID",
                    << Ref(5), <<"$">>, <<"$">>, Number(depth) >>),
          Statement(5, "IFCRECTANGLEPROFILEDEF",
                    << <<"$">>, <<"$">>, <<"$">>, Number(side), Number(side) >>) >>

\* an extruded polyline profile over the first corners points, the first
\* point listed again at the end when the polyline is closed
ExtrudedPolylineFile(corners, depth, closed) ==
    ProductStatements(4)
    \o << Statement(4, "IFCEXTRUDEDAREASOLID",
                    << Ref(5), <<"$">>, <<"$">>, Number(depth) >>),
          Statement(5, "IFCARBITRARYCLOSEDPROFILEDEF", << <<"$">>, <<"$">>, Ref(6) >>),
          Statement(6, "IFCPOLYLINE",
                    << Refs([i \in 1..corners |-> 10 + i]
                            \o IF closed THEN <<11>> ELSE <<>>) >>) >>
    \o [i \in 1..corners |-> Statement(10 + i, "IFCCARTESIANPOINT", << PointTriple(i) >>)]

\* an extruded circle of the given radius and depth
ExtrudedCircleFile(radius, depth) ==
    ProductStatements(4)
    \o << Statement(4, "IFCEXTRUDEDAREASOLID",
                    << Ref(5), <<"$">>, <<"$">>, Number(depth) >>),
          Statement(5, "IFCCIRCLEPROFILEDEF",
                    << <<".", "AREA", ".">>, <<"$">>, <<"$">>, Number(radius) >>) >>

InitMesh ==
    /\ pc = "geometry"
    /\ \/ \E kind \in ItemKinds : \E count \in 1..MaxPoints :
          \E a, b, c \in 0..(MaxPoints + 1) :
             stmts = FaceSetFile(kind, count, a, b, c)
       \/ \E count \in 1..MaxPoints : \E a, b, c, d \in 1..MaxPoints :
             stmts = TwoTriangleFile(count, a, b, c, d)
       \/ \E corners \in 1..(MaxPoints + 1) : stmts = BrepFile(corners)
       \/ \E half \in 1..MaxPoints : \E depth \in 0..MaxPoints :
             stmts = ExtrudedFile(2 * half, depth)
       \/ \E corners \in 1..(MaxPoints + 1) : \E depth \in 0..MaxPoints :
          \E closed \in BOOLEAN :
             stmts = ExtrudedPolylineFile(corners, depth, closed)
       \/ \E radius \in 1..MaxPoints : \E depth \in 1..MaxPoints :
             stmts = ExtrudedCircleFile(radius, depth)
       \/ \E first \in FirstLoops : \E second \in SeqsUpTo(1..(MaxPoints + 1), MaxPoints) :
             stmts = BrepLoopsFile(first, second)
    /\ text = FileText(stmts)
    /\ parser = "none"
    /\ ifc = NoDocument
    /\ ImportIdle
    /\ QuoteIdle
    /\ SplitIdle
    /\ SerializerIdle
    /\ MeshIdle
    /\ ExportIdle

\* IfcLiteParser.parse of the file, as import calls it
ParseGeometry ==
    /\ pc = "geometry"
    /\ \E parsedDoc \in {IfcLiteParser_parse(text)} :
          /\ ifc' = parsedDoc
          /\ parser' = "scanner"
    /\ pc' = "mesh"
    /\ UNCHANGED <<stmts, text, quoteVars, splitVars, serializerVars, importVars,
                   surface, tree, calls>>

\* tryExtractMesh for the product, entity #1
ExtractMesh ==
    /\ pc = "mesh"
    /\ \E extracted \in {tryExtractMesh(byIdGet(ifc.entities, 1), ifc.entities)} :
          surface' = extracted
    /\ pc' = "meshed"
    /\ UNCHANGED <<parseVars, quoteVars, splitVars, serializerVars, importVars, tree, calls>>

NextMesh == ParseGeometry \/ ExtractMesh

SpecMesh == InitMesh /\ [][NextMesh]_vars

\* the number of points of the extracted mesh
PointCount == Len(surface.position) \div 3

\* C3: in every mesh the geometry interpreter produces, every triangle
\* index is a non-negative integer below the number of points of that mesh
\* and the number of indices is a multiple of 3.
IndexWellFormed ==
    (pc = "meshed" /\ surface.ok) =>
        /\ Len(surface.index) % 3 = 0
        /\ \A k \in 1..Len(surface.index) : surface.index[k] \in 0..(PointCount - 1)

(***************************************************************************)
(* SpecPlacement: tryExtractMesh with the calls of resolveObjectPlacement   *)
(* taken one at a time.  The product names the first of up to              *)
(* MaxPlacements local placements, each relative to nothing or to any      *)
(* placement of the file, itself included.  stack holds the calls of       *)
(* resolveObjectPlacement in progress: the reference each was called with  *)
(* and the parent matrix once the inner call has returned.  MaxCallDepth   *)
(* stands for the depth at which the engine throws RangeError.             *)
(***************************************************************************)
MaxPlacements == 3
MaxCallDepth == 8

Pending == <<>>

\* the file of a product, with or without product shape, its face set and
\* the placements #21.., placement i relative to placement relTo[i] (0: none)
PlacedProductFile(withShape, relTo) ==
    << Statement(1, "IFCWALL",
                 << <<"'", "g", "'">>, <<"$">>, <<"'", "W", "'">>, <<"$">>, <<"$">>,
                    Ref(21), IF withShape THEN Ref(2) ELSE <<"$">> >>),
       Statement(2, "IFCPRODUCTDEFINITIONSHAPE", << <<"$">>, <<"$">>, Refs(<<3>>) >>),
       Statement(3, "IFCSHAPEREPRESENTATION", << <<"$">>, <<"$">>, <<"$">>, Refs(<<10>>) >>) >>
    \o FaceSetStatements(3, 1, 2, 3)
    \o [i \in 1..Len(relTo) |->
          Statement(20 + i, "IFCLOCALPLACEMENT",
                    << IF relTo[i] = 0 THEN <<"$">> ELSE Ref(20 + relTo[i]), <<"$">> >>)]

InitPlacement ==
    /\ pc = "geometry"
    /\ \E withShape \in BOOLEAN : \E k \in 1..MaxPlacements : \E relTo \in [1..k -> 0..k] :
          stmts = PlacedProductFile(withShape, relTo)
    /\ text = FileText(stmts)
    /\ parser = "none"
    /\ ifc = NoDocument
    /\ ImportIdle
    /\ QuoteIdle
    /\ SplitIdle
    /\ SerializerIdle
    /\ MeshIdle
    /\ ExportIdle

\* the rest of tryExtractMesh once the placement matrix is known
extractMeshPlaced(productShape, byId, placementMatrix) ==
    With(firstRepMesh(parseReferenceList(arg(productShape, 2)), byId), LAMBDA rawMesh :
        IF ~rawMesh.ok THEN NoSurface
        ELSE buildSurfaceMesh(applyMatrix(rawMesh.points, placementMatrix),
                              rawMesh.triangles))

\* the call at the top of the stack returns at once: its reference is
\* undefined or names no local placement
ReturnsIdentity(frame) ==
    \/ frame.placementRef = NoRef
    \/ byIdGet(ifc.entities, frame.placementRef) = Undefined
    \/ byIdGet(ifc.entities, frame.placementRef).type # "IFCLOCALPLACEMENT"

\* tryExtractMesh for the product, entity #1, up to its call of
\* resolveObjectPlacement
BeginExtract ==
    /\ pc = "mesh"
    /\ \E productShape \in {byIdGet(ifc.entities, argRef(byIdGet(ifc.entities, 1), 6))} :
          IF productShape = Undefined \/ productShape.type # "IFCPRODUCTDEFINITIONSHAPE"
          THEN /\ surface' = NoSurface
               /\ stack' = <<>>
               /\ pc' = "meshed"
          ELSE /\ stack' = << [placementRef |-> argRef(byIdGet(ifc.entities, 1), 5),
                               parent |-> Pending] >>
               /\ pc' = "placement"
               /\ UNCHANGED surface
    /\ UNCHANGED <<parseVars, quoteVars, splitVars, serializerVars, childMap, nodes, visited,
                   tree, calls>>

\* line 361: resolveObjectPlacement calls itself for the reference the
\* placement is relative to
CallPlacement ==
    /\ pc = "placement"
    /\ Len(stack) < MaxCallDepth
    /\ ~ReturnsIdentity(stack[Len(stack)])
    /\ stack[Len(stack)].parent = Pending
    /\ stack' = Append(stack,
                  [placementRef |-> argRef(byIdGet(ifc.entities,
                                                   stack[Len(stack)].placementRef), 0),
                   parent |-> Pending])
    /\ UNCHANGED <<pc, parseVars, quoteVars, splitVars, serializerVars, childMap, nodes,
                   visited, surface, tree, calls>>

\* the engine has no room for one more call: RangeError leaves import
StackOverflow ==
    /\ pc = "placement"
    /\ Len(stack) = MaxCallDepth
    /\ ~ReturnsIdentity(stack[Len(stack)])
    /\ stack[Len(stack)].parent = Pending
    /\ stack' = <<>>
    /\ pc' = "RangeError"
    /\ UNCHANGED <<parseVars, quoteVars, splitVars, serializerVars, childMap, nodes,
                   visited, surface, tree, calls>>

\* the call at the top of the stack returns: the identity, or
\* parent.multiply(local); the last return lets tryExtractMesh finish
ReturnPlacement ==
    /\ pc = "placement"
    /\ ReturnsIdentity(stack[Len(stack)]) \/ stack[Len(stack)].parent # Pending
    /\ \E returned \in {IF ReturnsIdentity(stack[Len(stack)]) THEN Matrix4_identity
                        ELSE Matrix4_multiply(stack[Len(stack)].parent,
                                resolveAxis2Placement3D(ifc.entities,
                                    argRef(byIdGet(ifc.entities,
                                                   stack[Len(stack)].placementRef), 1)))} :
          IF Len(stack) > 1
          THEN /\ stack' = [SubSeq(stack, 1, Len(stack) - 1)
                               EXCEPT ![Len(stack) - 1].parent = returned]
               /\ UNCHANGED <<pc, surface>>
          ELSE /\ stack' = <<>>
               /\ surface' = extractMeshPlaced(
                                byIdGet(ifc.entities, argRef(byIdGet(ifc.entities, 1), 6)),
                                ifc.entities, returned)
               /\ pc' = "meshed"
    /\ UNCHANGED <<parseVars, quoteVars, splitVars, serializerVars, childMap, nodes, visited,
                   tree, calls>>

NextPlacement ==
    ParseGeometry \/ BeginExtract \/ CallPlacement \/ StackOverflow \/ ReturnPlacement

SpecPlacement == InitPlacement /\ [][NextPlacement]_vars

\* the local placements of the parsed file
LocalPlacements ==
    {k \in 1..Len(ifc.entities) : ifc.entities[k].type = "IFCLOCALPLACEMENT"}

MaxMappedItems == 2     \* most items of a mapped representation

OperandTargets == {4, 5, 9, 10, NoRef}
MappedTargets == {4, 5, 10}

\* the statements of item id: a boolean result of first operand target[1]
\* ($ for NoRef) and second operand #9 for item #4, #10 for item #5, or a
\* mapped item whose representation lists the targets
ItemStatements(id, boolean, targets) ==
    IF boolean
    THEN << Statement(id, "IFCBOOLEANRESULT",
                      << <<"$">>, IF targets[1] = NoRef THEN <<"$">> ELSE Ref(targets[1]),
                         Ref(id + 5) >>) >>
    ELSE << Statement(id, "IFCMAPPEDITEM", << Ref(20 + id), <<"$">> >>),
            Statement(20 + id, "IFCREPRESENTATIONMAP", << <<"$">>, Ref(30 + id) >>),
            Statement(30 + id, "IFCSHAPEREPRESENTATION",
                      << <<"$">>, <<"$">>, <<"$">>, Refs(targets) >>) >>

ItemShapes ==
    {[boolean |-> TRUE, targets |-> <<t>>] : t \in OperandTargets}
    \cup {[boolean |-> FALSE, targets |-> ts] :
              ts \in SeqsUpTo(MappedTargets, MaxMappedItems) \ {<<>>}}

ItemFile(first, second) ==
    ProductStatements(4)
    \o ItemStatements(4, first.boolean, first.targets)
    \o ItemStatements(5, second.boolean, second.targets)
    \o FaceSetStatements(3, 1, 2, 3)

InitItem ==
    /\ pc = "geometry"
    /\ \E first, second \in ItemShapes : stmts = ItemFile(first, second)
    /\ text = FileText(stmts)
    /\ parser = "none"
    /\ ifc = NoDocument
    /\ ImportIdle
    /\ QuoteIdle
    /\ SplitIdle
    /\ SerializerIdle
    /\ MeshIdle
    /\ ExportIdle

\* a test of the visited set that never finds the item
itemVisitedNever(seen, itemRef) == FALSE

\* lines 129-131: visited.has(itemRef)
itemVisited(seen, itemRef) == itemRef \in seen

\* the mesh of an item of one of the three types that are resolved at once
itemLeafMesh(item, byId) ==
    IF item.type = "IFCTRIANGULATEDFACESET" THEN meshFromTriangulatedFaceSet(item, byId)
    ELSE IF item.type = "IFCFACETEDBREP" THEN meshFromFacetedBrep(item, byId)
    ELSE IF item.type = "IFCEXTRUDEDAREASOLID" THEN meshFromExtrudedAreaSolid(item, byId)
    ELSE NoMesh

\* itemCalls with the second operand of a boolean result for the first
itemCallsSecondOperand(item, byId) ==
    IF item.type \in {"IFCBOOLEANCLIPPINGRESULT", "IFCBOOLEANRESULT"}
    THEN IF argRef(item, 2) # NoRef THEN <<argRef(item, 2)>> ELSE <<>>
    ELSE IF item.type = "IFCMAPPEDITEM"
    THEN With(byIdGet(byId, argRef(item, 0)), LAMBDA map :
            IF map = Undefined \/ map.type # "IFCREPRESENTATIONMAP" THEN <<>>
            ELSE With(byIdGet(byId, argRef(map, 1)), LAMBDA rep :
                    IF rep = Undefined \/ rep.type # "IFCSHAPEREPRESENTATION" THEN <<>>
                    ELSE parseReferenceList(arg(rep, 3))))
    ELSE <<>>

\* the references the call for item resolves by calling itself: the first
\* operand of a boolean result, the items of a mapped representation
itemCalls(item, byId) ==
    IF item.type \in {"IFCBOOLEANCLIPPINGRESULT", "IFCBOOLEANRESULT"}
    THEN IF argRef(item, 1) # NoRef THEN <<argRef(item, 1)>> ELSE <<>>
    ELSE IF item.type = "IFCMAPPEDITEM"
    THEN With(byIdGet(byId, argRef(item, 0)), LAMBDA map :
            IF map = Undefined \/ map.type # "IFCREPRESENTATIONMAP" THEN <<>>
            ELSE With(byIdGet(byId, argRef(map, 1)), LAMBDA rep :
                    IF rep = Undefined \/ rep.type # "IFCSHAPEREPRESENTATION" THEN <<>>
                    ELSE parseReferenceList(arg(rep, 3))))
    ELSE <<>>

\* the calls in progress once the innermost call has returned mesh: a call
\* that is given a mesh returns it (a mapped item after applyMatrix), a call
\* with nothing left to resolve returns undefined, any other goes on
RECURSIVE settle(_, _, _)
settle(st, mesh, byId) ==
    IF st = <<>> THEN [stack |-> st, mesh |-> mesh]
    ELSE With(st[Len(st)], LAMBDA frame :
            IF mesh.ok
            THEN settle(SubSeq(st, 1, Len(st) - 1),
                        IF frame.mapped
                        THEN RawMesh(applyMatrix(mesh.points, frame.matrix), mesh.triangles)
                        ELSE mesh,
                        byId)
            ELSE IF frame.items = <<>>
            THEN settle(SubSeq(st, 1, Len(st) - 1), NoMesh, byId)
            ELSE [stack |-> st, mesh |-> NoMesh])

\* the call meshFromRepresentationItem(itemRef, byId, visited) up to its
\* first call of itself, or up to its return and the returns that follow
enterItem(st, seen, byId, itemRef) ==
    IF itemVisited(seen, itemRef)
    THEN [settled |-> settle(st, NoMesh, byId), visited |-> seen]
    ELSE With(byIdGet(byId, itemRef), LAMBDA item :
            IF item = Undefined
            THEN [settled |-> settle(st, NoMesh, byId), visited |-> seen \cup {itemRef}]
            ELSE [settled |->
                      settle(Append(st,
                                 [items |-> itemCalls(item, byId),
                                  mapped |-> item.type = "IFCMAPPEDITEM",
                                  matrix |-> IF item.type = "IFCMAPPEDITEM"
                                             THEN resolveCartesianTransformation(
                                                      byId, argRef(item, 1))
                                             ELSE Matrix4_identity]),
                             itemLeafMesh(item, byId), byId),
                  visited |-> seen \cup {itemRef}])

\* line 113: tryExtractMesh is about to call meshFromRepresentationItem for
\* the first item of the representation #3, with a new visited set; childMap
\* records, for the measure of the resolution, the references every item of
\* the file resolves by calling itself
BeginItem ==
    /\ pc = "mesh"
    /\ stack' = << [items |-> SubSeq(parseReferenceList(arg(byIdGet(ifc.entities, 3), 3)), 1, 1),
                    mapped |-> FALSE, matrix |-> Matrix4_identity] >>
    /\ visited' = {}
    /\ childMap' = [id \in {ifc.entities[i].id : i \in 1..Len(ifc.entities)} |->
                       itemCalls(byIdGet(ifc.entities, id), ifc.entities)]
    /\ pc' = "item"
    /\ UNCHANGED <<parseVars, quoteVars, splitVars, serializerVars, nodes,
                   surface, tree, calls>>

\* one call of meshFromRepresentationItem: for the next reference of the
\* innermost call in progress
CallItem ==
    /\ pc = "item"
    /\ stack # <<>>
    /\ Len(stack) <= MaxCallDepth
    /\ \E r \in {enterItem([stack EXCEPT ![Len(stack)].items = Tail(@)], visited,
                            ifc.entities, Head(stack[Len(stack)].items))} :
          /\ stack' = r.settled.stack
          /\ visited' = r.visited
          /\ IF r.settled.stack = <<>>
             THEN /\ pc' = "meshed"
                  /\ surface' = IF r.settled.mesh.ok
                                 THEN buildSurfaceMesh(r.settled.mesh.points,
                                                       r.settled.mesh.triangles)
                                 ELSE NoSurface
             ELSE UNCHANGED <<pc, surface>>
    /\ UNCHANGED <<parseVars, quoteVars, splitVars, serializerVars, childMap, nodes,
                   tree, calls>>

NextItem == ParseGeometry \/ BeginItem \/ CallItem

SpecItem == InitItem /\ [][NextItem]_vars

\* acc plus the sum of the numbers of sequence q from position i on
RECURSIVE SumFrom(_, _, _)
SumFrom(q, i, acc) == IF i > Len(q) THEN acc ELSE SumFrom(q, i + 1, acc + q[i])

\* What is left of the resolution: the references the calls in progress
\* have still to resolve and the references every item not yet visited
\* brings.
ItemsRemaining ==
    SumFrom([f \in 1..Len(stack) |-> Len(stack[f].items)], 1, 0)
    + SumFrom([i \in 1..Len(ifc.entities) |->
                  IF ifc.entities[i].id \in visited THEN 0
                  ELSE Len(childrenOf(childMap, ifc.entities[i].id))], 1, 0)

\* C23: meshFromRepresentationItem returns on every file, also when items
\* name themselves or each other as first operand or through a mapped
\* representation: while a call is in progress a next step is possible, no
\* item has more than one call in progress, what is left of the resolution,
\* a natural number, gets smaller with every call, and a call for an item of
\* the visited set returns undefined and leaves the set as it is.
ItemsTerminate ==
    /\ [](pc = "item" =>
              /\ stack # <<>>
              /\ stack[Len(stack)].items # <<>>
              /\ Len(stack) <= Cardinality(visited) + 1
              /\ Cardinality(visited) <= Len(ifc.entities) + 1
              /\ Len(stack) <= MaxCallDepth
              /\ ItemsRemaining \in Nat
              /\ \A id \in DOMAIN childMap :
                    childMap[id] = itemCalls(byIdGet(ifc.entities, id), ifc.entities)
              /\ \A id \in visited :
                    meshFromRepresentationItem(id, ifc.entities, visited)
                        = [mesh |-> NoMesh, visited |-> visited])
    /\ [][pc = "item" => ItemsRemaining' < ItemsRemaining]_vars
    /\ [][(pc = "item" /\ Head(stack[Len(stack)].items) \in visited)
              => (visited' = visited /\ Len(stack') <= Len(stack) /\ ~surface'.ok)]_vars

\* the call for item #4 has returned without a mesh on a file in which #4
\* is a mapped item whose representation lists #5 and #4 itself, and #5 is
\* a boolean result whose first operand is #4
ItemsTerminateWitness ==
    /\ pc = "meshed"
    /\ ~surface.ok
    /\ visited = {4, 5}
    /\ byIdGet(ifc.entities, 4).type = "IFCMAPPEDITEM"
    /\ itemCalls(byIdGet(ifc.entities, 4), ifc.entities) = <<5, 4>>
    /\ itemCalls(byIdGet(ifc.entities, 5), ifc.entities) = <<4>>

\* meshFromRepresentationItem(itemRef, byId, new Set())
resolveItem(itemRef) == meshFromRepresentationItem(itemRef, ifc.entities, {}).mesh

\* the boolean results of the parsed file
BooleanItems ==
    {i \in 1..Len(ifc.entities) :
        ifc.entities[i].type \in {"IFCBOOLEANCLIPPINGRESULT", "IFCBOOLEANRESULT"}}

\* C25: a boolean result resolves to what its first operand resolves to, to
\* nothing when it has no first operand or the operand gives nothing, and
\* two boolean results with the same first operand resolve to the same,
\* whatever their second operands; the call for item #4 returns that mesh.
BooleanIsFirstOperand ==
    pc = "meshed" =>
        /\ \A i \in BooleanItems :
              resolveItem(ifc.entities[i].id)
                  = IF argRef(ifc.entities[i], 1) = NoRef THEN NoMesh
                    ELSE resolveItem(argRef(ifc.entities[i], 1))
        /\ \A i, j \in BooleanItems :
              argRef(ifc.entities[i], 1) = argRef(ifc.entities[j], 1)
                  => resolveItem(ifc.entities[i].id) = resolveItem(ifc.entities[j].id)
        /\ \A i \in BooleanItems :
              ifc.entities[i].id = 4 =>
                  surface = IF argRef(ifc.entities[i], 1) # NoRef
                               /\ resolveItem(argRef(ifc.entities[i], 1)).ok
                            THEN buildSurfaceMesh(resolveItem(argRef(ifc.entities[i], 1)).points,
                                                  resolveItem(argRef(ifc.entities[i], 1)).triangles)
                            ELSE NoSurface

\* the call for item #4 has returned the mesh of the face set on a file in
\* which #4 and #5 are boolean results with the face set #10 for first
\* operand, #4 with the missing entity #9 for second operand
BooleanIsFirstOperandWitness ==
    /\ pc = "meshed"
    /\ surface.ok
    /\ surface.index = <<0, 1, 2>>
    /\ Cardinality(BooleanItems) = 2
    /\ \A i \in BooleanItems : argRef(ifc.entities[i], 1) = 10
    /\ argRef(byIdGet(ifc.entities, 4), 2) = 9
    /\ argRef(byIdGet(ifc.entities, 5), 2) = 10

\* the result of the calls taken one at a time is the result of
\* meshFromRepresentationItem(4, byId, new Set())
ItemStepsAgree ==
    pc = "meshed" =>
        With(meshFromRepresentationItem(4, ifc.entities, {}), LAMBDA r :
            /\ r.visited = visited
            /\ surface = IF r.mesh.ok THEN buildSurfaceMesh(r.mesh.points, r.mesh.triangles)
                          ELSE NoSurface)

\* the file holds an extruded area solid #4 whose profile #5 is a circle
IsExtrudedCircleFile ==
    /\ Len(stmts) = 5
    /\ stmts[4].text[4] = "IFCEXTRUDEDAREASOLID"
    /\ stmts[5].text[4] = "IFCCIRCLEPROFILEDEF"

\* C26: an extruded area solid whose profile is a circle of positive radius,
\* extruded by a positive depth, resolves to a mesh: two rings of the same
\* number of points, at least three each, and triangles over them.
CircleExtruded ==
    (pc = "meshed" /\ IsExtrudedCircleFile) =>
        /\ surface.ok
        /\ PointCount % 2 = 0
        /\ PointCount >= 6
        /\ Len(surface.index) = 3 * (2 * PointCount - 4)

\* the coordinates of the i-th point of the point lists of the files
PointCoords(i) == <<(i - 1) % 2, ((i - 1) \div 2) % 2, (i - 1) \div 4>>

\* the numbers written in a statement, in order, the id of the statement
\* first
NumbersOf(statement) ==
    With(SelectSeq(statement.text, IsDigits), LAMBDA digits :
        [k \in 1..Len(digits) |-> parseInt(digits[k])])

\* the file holds the product, its face set #10 and the point list #11
IsFaceSetFile ==
    /\ Len(stmts) = 5
    /\ stmts[4].text[4] = "IFCTRIANGULATEDFACESET"
    /\ stmts[5].text[4] = "IFCCARTESIANPOINTLIST3D"

\* the 1-based indices of the face list and the coordinates of the point
\* list, as written in the file
FaceList == Tail(Tail(NumbersOf(stmts[4])))
PointList == Tail(NumbersOf(stmts[5]))

\* C13: a triangulated face set whose point list has p triples and whose
\* face list has t triples of 1-based indices resolves to a mesh of exactly
\* the p points and t triangles, the k-th triangle being the k-th triple
\* with 1 subtracted from each index.
FaceSetResolved ==
    (pc = "meshed" /\ IsFaceSetFile /\ \A k \in 1..Len(FaceList) : FaceList[k] >= 1) =>
        /\ surface.ok
        /\ surface.position = PointList
        /\ surface.index = [k \in 1..Len(FaceList) |-> FaceList[k] - 1]

\* the face list ((1,2,3)) over three points: index buffer of length 3,
\* position buffer of length 9
FaceSetResolvedWitness ==
    /\ pc = "meshed"
    /\ IsFaceSetFile
    /\ FaceList = <<1, 2, 3>>
    /\ surface.index = <<0, 1, 2>>
    /\ Len(surface.position) = 9

\* the k-th triangle of the index buffer, k from 1
TriangleAt(k) == <<surface.index[3 * k - 2], surface.index[3 * k - 1], surface.index[3 * k]>>

\* the i-th point of the position buffer, i from 0
PointAt(i) == <<surface.position[3 * i + 1], surface.position[3 * i + 2],
                surface.position[3 * i + 3]>>

\* the file holds a faceted brep whose loops are the statements 9 and 10
\* and whose points are the statements from 11 on, point #r statement r
IsBrepLoopsFile ==
    /\ Len(stmts) > 10
    /\ stmts[4].text[4] = "IFCFACETEDBREP"
    /\ stmts[9].text[4] = "IFCPOLYLOOP"
    /\ stmts[10].text[4] = "IFCPOLYLOOP"

\* the coordinates of the vertices of a loop that name a point of the file
LoopVertices(statement) ==
    With(SelectSeq(Tail(NumbersOf(statement)), LAMBDA r : r \in 11..Len(stmts)),
         LAMBDA refs : [k \in 1..Len(refs) |-> Tail(NumbersOf(stmts[refs[k]]))])

FirstLoop == LoopVertices(stmts[9])
SecondLoop == LoopVertices(stmts[10])

\* the coordinates of the corners of the k-th triangle
CornersAt(k) ==
    <<PointAt(TriangleAt(k)[1]), PointAt(TriangleAt(k)[2]), PointAt(TriangleAt(k)[3])>>

\* triangles from..(from + k - 3) are the fan of the k vertices of loop
IsFan(loop, from) ==
    \A i \in 1..(Len(loop) - 2) :
        /\ TriangleAt(from + i - 1)[1] = TriangleAt(from)[1]
        /\ CornersAt(from + i - 1) = <<loop[1], loop[i + 1], loop[i + 2]>>

\* C27: the mesh of a faceted brep holds no two points of the same
\* coordinates, every index names a point of the mesh, and a loop of k
\* resolved vertices gives the max(0, k - 2) triangles (v0, vi, vi+1), the
\* loops in their order; the points are the coordinates the loops name.
BrepTriangulated ==
    (pc = "meshed" /\ IsBrepLoopsFile) =>
        /\ surface.ok <=> Max(0, Len(FirstLoop) - 2) + Max(0, Len(SecondLoop) - 2) > 0
        /\ surface.ok =>
              /\ \A i, j \in 0..(PointCount - 1) : i # j => PointAt(i) # PointAt(j)
              /\ {PointAt(i) : i \in 0..(PointCount - 1)}
                    = {FirstLoop[k] : k \in 1..Len(FirstLoop)}
                      \cup {SecondLoop[k] : k \in 1..Len(SecondLoop)}
              /\ \A k \in 1..Len(surface.index) : surface.index[k] \in 0..(PointCount - 1)
              /\ Len(surface.index)
                    = 3 * (Max(0, Len(FirstLoop) - 2) + Max(0, Len(SecondLoop) - 2))
              /\ IsFan(FirstLoop, 1)
              /\ IsFan(SecondLoop, 1 + Max(0, Len(FirstLoop) - 2))

\* a brep has been resolved whose first loop names four points, the fourth
\* with the coordinates of the first, and whose second loop names three:
\* three points, three triangles, the second one (v0, v2, v0)
BrepTriangulatedWitness ==
    /\ pc = "meshed"
    /\ IsBrepLoopsFile
    /\ Len(FirstLoop) = 4 /\ FirstLoop[4] = FirstLoop[1]
    /\ Len(SecondLoop) = 3
    /\ PointCount = 3
    /\ Len(surface.index) = 9
    /\ TriangleAt(2) = <<0, 2, 0>>

\* the mesh is the extrusion of a profile of n vertices along z by depth:
\* 2n points, the second ring being the first one moved by depth, and
\* 4n - 4 triangles, 2(n - 2) of them within one ring each and two per side
ExtrusionOf(n, depth) ==
    /\ surface.ok
    /\ Len(surface.position) = 3 * (2 * n)
    /\ Len(surface.index) = 3 * (4 * n - 4)
    /\ \A i \in 0..(n - 1) :
          PointAt(n + i) = <<PointAt(i)[1], PointAt(i)[2], PointAt(i)[3] + depth>>
    /\ \A k \in 1..(2 * (n - 2)) :
          \/ \A x \in 1..3 : TriangleAt(k)[x] \in 0..(n - 1)
          \/ \A x \in 1..3 : TriangleAt(k)[x] \in n..(2 * n - 1)
    /\ \A i \in 0..(n - 1) :
          /\ TriangleAt(2 * (n - 2) + 2 * i + 1) = <<i, (i + 1) % n, n + ((i + 1) % n)>>
          /\ TriangleAt(2 * (n - 2) + 2 * i + 2) = <<i, n + ((i + 1) % n), n + i>>

\* C14: an extruded area solid whose profile resolves to n >= 3 vertices
\* and whose depth is not zero resolves to a mesh of 2n points, the bottom
\* ring followed by the ring moved by direction * depth, and 4n - 4
\* triangles, n - 2 per cap and two per side; a rectangle gives 8 points and
\* 12 triangles.
ExtrusionResolved ==
    pc = "meshed" =>
        /\ \A half \in 1..MaxPoints : \A depth \in 1..MaxPoints :
              stmts = ExtrudedFile(2 * half, depth) =>
                  /\ ExtrusionOf(4, depth)
                  /\ Len(surface.position) = 3 * 8
                  /\ Len(surface.index) = 3 * 12
        /\ \A corners \in 3..(MaxPoints + 1) : \A depth \in 1..MaxPoints :
           \A closed \in BOOLEAN :
              stmts = ExtrudedPolylineFile(corners, depth, closed) =>
                  /\ ExtrusionOf(corners, depth)
                  /\ \A i \in 0..(corners - 1) : PointAt(i) = PointCoords(i + 1)

\* a triangle profile has been extruded: 6 points, 8 triangles
ExtrusionResolvedWitness ==
    /\ pc = "meshed"
    /\ stmts = ExtrudedPolylineFile(3, 2, TRUE)
    /\ Len(surface.position) = 18
    /\ Len(surface.index) = 24

(***************************************************************************)
(* IfcLiteExporter of ifcLiteExporter.ts.  A document is its name and the  *)
(* nodes of its model, node 1 being modelManager.rootNode; a node lists    *)
(* its children by position.  The writer is the next id and the lines      *)
(* written so far.  The ids of the nodes are words of 22 characters, for   *)
(* which the slice and padEnd of safeGuid change nothing.                  *)
(***************************************************************************)
IFC_SCHEMA == "IFC4X3_ADD2"

NoTree == [name |-> <<>>, nodes |-> <<>>]

NewWriter == [id |-> 1, lines |-> <<>>]

\* an IfcStepWriter whose entity() hands out its id without advancing it
entityKeepingId(writer, type, args) ==
    [writer |-> [id |-> writer.id,
                 lines |-> Append(writer.lines,
                                  <<"#", ToString(writer.id), "=", type, "(">>
                                  \o join(args, ",") \o <<")", ";">>)],
     ref |-> <<"#", ToString(writer.id)>>]

\* an IfcStepWriter whose entity() returns the id after advancing it
entityReturningNextId(writer, type, args) ==
    [writer |-> [id |-> writer.id + 1,
                 lines |-> Append(writer.lines,
                                  <<"#", ToString(writer.id), "=", type, "(">>
                                  \o join(args, ",") \o <<")", ";">>)],
     ref |-> <<"#", ToString(writer.id + 1)>>]

\* IfcStepWriter.entity: the writer after the call and the reference returned
entity(writer, type, args) ==
    [writer |-> [id |-> writer.id + 1,
                 lines |-> Append(writer.lines,
                                  <<"#", ToString(writer.id), "=", type, "(">>
                                  \o join(args, ",") \o <<")", ";">>)],
     ref |-> <<"#", ToString(writer.id)>>]

\* `(${ref})`
inParens(v) == <<"(">> \o v \o <<")">>

safeGuid(v) == SelectSeq(v, LAMBDA c : c = "$" \/ c \notin Punctuation)

\* `${Number.parseFloat(value.toFixed(6))}` of a finite number
toIfcNumber(n) == IF n < 0 THEN <<"-", ToString(0 - n)>> ELSE <<ToString(n)>>

toPointList(points) ==
    inParens(join([i \in 1..(Len(points) \div 3) |->
                     inParens(join(<<toIfcNumber(points[3 * i - 2]),
                                     toIfcNumber(points[3 * i - 1]),
                                     toIfcNumber(points[3 * i])>>, ","))], ","))

toCoordIndex(indices) ==
    inParens(join([i \in 1..(Len(indices) \div 3) |->
                     inParens(join(<<toIfcNumber(indices[3 * i - 2] + 1),
                                     toIfcNumber(indices[3 * i - 1] + 1),
                                     toIfcNumber(indices[3 * i] + 1)>>, ","))], ","))

\* matrix.ofPoints on a flat position buffer
Matrix4_ofPoints(m, flat) ==
    [k \in 1..Len(flat) |->
        Matrix4_ofPoint(m, <<flat[k - ((k - 1) % 3)], flat[k - ((k - 1) % 3) + 1],
                             flat[k - ((k - 1) % 3) + 2]>>)[((k - 1) % 3) + 1]]

NoTriangulatedMesh == [ok |-> FALSE, points |-> <<>>, indices |-> <<>>]

triangulatedMeshFromNode(node, transform) ==
    IF node.kind = "MeshNode" /\ node.mesh.ok
    THEN [ok |-> TRUE, points |-> Matrix4_ofPoints(transform, node.mesh.position),
          indices |-> node.mesh.index]
    ELSE NoTriangulatedMesh

\* a createRepresentation that does not look at the lengths of the buffers
createRepresentationUnguarded(writer, node, context, transform) ==
    With(triangulatedMeshFromNode(node, transform), LAMBDA mesh :
        IF ~mesh.ok
        THEN [writer |-> writer, ref |-> <<"$">>]
        ELSE With(entity(writer, "IFCCARTESIANPOINTLIST3D", <<toPointList(mesh.points)>>),
                  LAMBDA pointList :
             With(entity(pointList.writer, "IFCTRIANGULATEDFACESET",
                         <<pointList.ref, <<"$">>, <<".", "T", ".">>,
                           toCoordIndex(mesh.indices), <<"$">> >>),
                  LAMBDA triangulatedFaceSet :
             With(entity(triangulatedFaceSet.writer, "IFCSHAPEREPRESENTATION",
                         <<context, <<"'", "Body", "'">>, <<"'", "Tessellation", "'">>,
                           inParens(triangulatedFaceSet.ref)>>),
                  LAMBDA shapeRepresentation :
                    entity(shapeRepresentation.writer, "IFCPRODUCTDEFINITIONSHAPE",
                           << <<"$">>, <<"$">>, inParens(shapeRepresentation.ref)>>)))))

\* the writer after createRepresentation and the reference it returns,
\* <<"$">> standing for undefined (exportProxyNode writes "$" for it)
createRepresentation(writer, node, context, transform) ==
    With(triangulatedMeshFromNode(node, transform), LAMBDA mesh :
        IF ~mesh.ok \/ Len(mesh.points) = 0 \/ Len(mesh.indices) = 0
        THEN [writer |-> writer, ref |-> <<"$">>]
        ELSE With(entity(writer, "IFCCARTESIANPOINTLIST3D", <<toPointList(mesh.points)>>),
                  LAMBDA pointList :
             With(entity(pointList.writer, "IFCTRIANGULATEDFACESET",
                         <<pointList.ref, <<"$">>, <<".", "T", ".">>,
                           toCoordIndex(mesh.indices), <<"$">> >>),
                  LAMBDA triangulatedFaceSet :
             With(entity(triangulatedFaceSet.writer, "IFCSHAPEREPRESENTATION",
                         <<context, <<"'", "Body", "'">>, <<"'", "Tessellation", "'">>,
                           inParens(triangulatedFaceSet.ref)>>),
                  LAMBDA shapeRepresentation :
                    entity(shapeRepresentation.writer, "IFCPRODUCTDEFINITIONSHAPE",
                           << <<"$">>, <<"$">>, inParens(shapeRepresentation.ref)>>)))))

exportProxyNode(writer, node, placement, context, transform) ==
    With(createRepresentation(writer, node, context, transform), LAMBDA representation :
        entity(representation.writer, "IFCBUILDINGELEMENTPROXY",
               << <<"'">> \o safeGuid(node.id) \o <<"'">>, <<"$">>, quote(node.name),
                  <<"$">>, <<"$">>, placement, representation.ref, <<"$">> >>))

\* the loop of exportModelNodes over the children kids of one node;
\* st = [writer, ids]
\* ids.push(exportProxyNode(...)) with the writer exportProxyNode leaves
pushProxy(st, proxy) == [writer |-> proxy.writer, ids |-> Append(st.ids, proxy.ref)]

RECURSIVE exportModelNodesLoop(_, _, _, _, _, _)
exportModelNodesLoop(all, st, kids, placement, context, parentTransform) ==
    IF kids = <<>> THEN st
    ELSE LET child == all[Head(kids)]
             childTransform == Matrix4_multiply(parentTransform, child.transform)
         IN  exportModelNodesLoop(all,
                IF child.kind = "FolderNode" /\ child.children # <<>>
                THEN exportModelNodesLoop(all, st, child.children, placement, context,
                                          childTransform)
                ELSE pushProxy(st, exportProxyNode(st.writer, child, placement, context,
                                                   childTransform)),
                Tail(kids), placement, context, parentTransform)

exportModelNodes(all, writer, rootNode, placement, context, parentTransform) ==
    exportModelNodesLoop(all, [writer |-> writer, ids |-> <<>>], all[rootNode].children,
                         placement, context, parentTransform)

\* the entities export writes before the model nodes: the writer and the
\* references the rest of export uses
exportSpatialChain(name) ==
    With(entity(NewWriter, "IFCCARTESIANPOINT",
                << <<"(", "0", ".", ",", "0", ".", ",", "0", ".", ")">> >>),
         LAMBDA origin :
    With(entity(origin.writer, "IFCAXIS2PLACEMENT3D", <<origin.ref, <<"$">>, <<"$">> >>),
         LAMBDA worldAxis :
    With(entity(worldAxis.writer, "IFCGEOMETRICREPRESENTATIONCONTEXT",
                << <<"$">>, <<"'", "Model", "'">>, <<"3">>, <<"1", ".", "E", "-", "5">>,
                   worldAxis.ref, <<"$">> >>),
         LAMBDA context :
    With(entity(context.writer, "IFCUNITASSIGNMENT", << <<"(", ")">> >>),
         LAMBDA units :
    With(entity(units.writer, "IFCLOCALPLACEMENT", << <<"$">>, worldAxis.ref >>),
         LAMBDA sitePlacement :
    With(entity(sitePlacement.writer, "IFCLOCALPLACEMENT",
                <<sitePlacement.ref, worldAxis.ref>>),
         LAMBDA buildingPlacement :
    With(entity(buildingPlacement.writer, "IFCLOCALPLACEMENT",
                <<buildingPlacement.ref, worldAxis.ref>>),
         LAMBDA storeyPlacement :
    With(entity(storeyPlacement.writer, "IFCPROJECT",
                << <<"'", "2Q", "$", "nYn96f5xhkg5f9JAF7q", "'">>, <<"$">>, quote(name),
                   <<"$">>, <<"$">>, <<"$">>, <<"$">>, inParens(context.ref), units.ref >>),
         LAMBDA project :
    With(entity(project.writer, "IFCSITE",
                << <<"'", "0", "$", "SITE000000000000000000", "'">>, <<"$">>,
                   quote(name \o <<" ", "Site">>), <<"$">>, <<"$">>, sitePlacement.ref,
                   <<"$">>, <<"$">>, <<".", "ELEMENT", ".">>, <<"$">>, <<"$">>, <<"$">>,
                   <<"$">>, <<"$">> >>),
         LAMBDA site :
    With(entity(site.writer, "IFCBUILDING",
                << <<"'", "0", "$", "BLDG000000000000000000", "'">>, <<"$">>,
                   quote(name \o <<" ", "Building">>), <<"$">>, <<"$">>,
                   buildingPlacement.ref, <<"$">>, <<"$">>, <<".", "ELEMENT", ".">>,
                   <<"$">>, <<"$">>, <<"$">> >>),
         LAMBDA building :
    With(entity(building.writer, "IFCBUILDINGSTOREY",
                << <<"'", "0", "$", "STRY000000000000000000", "'">>, <<"$">>,
                   quote(name \o <<" ", "Storey">>), <<"$">>, <<"$">>,
                   storeyPlacement.ref, <<"$">>, <<"$">>, <<".", "ELEMENT", ".">>,
                   <<"0", ".">> >>),
         LAMBDA storey :
            [writer |-> storey.writer, context |-> context.ref,
             storeyPlacement |-> storeyPlacement.ref, project |-> project.ref,
             site |-> site.ref, building |-> building.ref, storey |-> storey.ref])))))))))))

relAggregates(writer, guid, name, parent, child) ==
    entity(writer, "IFCRELAGGREGATES",
           << <<"'", "0", "$", guid, "'">>, <<"$">>, quote(name), <<"$">>, parent,
              inParens(child) >>).writer

\* the relationships export writes after the model nodes
exportRelationships(chain, writer, proxyIds) ==
    With(relAggregates(
            relAggregates(
                relAggregates(writer, "REL000000000000000000",
                              <<"Project", " ", "Aggregates">>, chain.project, chain.site),
                "REL000000000000000001", <<"Site", " ", "Aggregates">>,
                chain.site, chain.building),
            "REL000000000000000002", <<"Building", " ", "Aggregates">>,
            chain.building, chain.storey),
         LAMBDA aggregated :
            IF Len(proxyIds) > 0
            THEN entity(aggregated, "IFCRELCONTAINEDINSPATIALSTRUCTURE",
                        << <<"'", "0", "$", "REL000000000000000003", "'">>, <<"$">>,
                           quote(<<"Storey", " ", "Containment">>), <<"$">>,
                           inParens(join(proxyIds, ",")), chain.storey >>).writer
            ELSE aggregated)

\* the lines before and after writer.lines; isoString is the value of
\* new Date().toISOString() at the time of the call
exportHeader(name, isoString) ==
    << <<"ISO", "-", "10303", "-", "21", ";">>,
       <<"HEADER", ";">>,
       <<"FILE_DESCRIPTION", "(", "(", "'", "ViewDefinition", " ", "[", IFC_SCHEMA, "]",
         "'", ")", ",", "'", "2", ";", "1", "'", ")", ";">>,
       <<"FILE_NAME", "(", "'">> \o name \o <<".", "ifc", "'", ",", "'">> \o isoString
         \o <<"'", ",", "(", "'", "Chili3D", "'", ")", ",", "(", "'", "Chili3D", "'", ")",
              ",", "'", "Chili3D", "'", ",", "'", "Chili3D", "'", ",", "'", "'", ")", ";">>,
       <<"FILE_SCHEMA", "(", "(", "'", IFC_SCHEMA, "'", ")", ")", ";">>,
       <<"ENDSEC", ";">>,
       <<"DATA", ";">> >>

exportFooter == << <<"ENDSEC", ";">>, <<"END", "-", "ISO", "-", "10303", "-", "21", ";">> >>

IfcLiteExporter_export(document, isoString) ==
    With(exportSpatialChain(document.name), LAMBDA chain :
    With(exportModelNodes(document.nodes, chain.writer, 1, chain.storeyPlacement,
                          chain.context, Matrix4_identity),
         LAMBDA model :
            join(exportHeader(document.name, isoString)
                 \o exportRelationships(chain, model.writer, model.ids).lines
                 \o exportFooter, "\n")))

(***************************************************************************)
(* The round trip of IfcLiteService: export of a document, then import of  *)
(* the text.  The documents are all trees of up to MaxTreeNodes nodes of   *)
(* folders and surface meshes of one triangle below the root node; export  *)
(* reads the clock once.                                                   *)
(***************************************************************************)
MaxTreeNodes == 4

NodeIds ==
    <<"N100000000000000000000", "N200000000000000000000", "N300000000000000000000",
      "N400000000000000000000", "N500000000000000000000", "N600000000000000000000">>

DocumentNames == {<<"M">>, <<"a", "'", "s">>}

IsoStrings ==
    {<<"2026", "-", "01", "-", "01T00", ":", "00", ":", "00", ".", "000Z">>,
     <<"2026", "-", "01", "-", "01T00", ":", "00", ":", "00", ".", "001Z">>}

Triangle == [ok |-> TRUE, position |-> <<0, 0, 0, 1, 0, 0, 0, 1, 0>>, index |-> <<0, 1, 2>>]

\* a surface mesh whose buffers are empty
EmptyMesh == [ok |-> TRUE, position |-> <<>>, index |-> <<>>]

\* the nodes of the tree in which node i > 1 hangs below node parent[i] and
\* is of kind kinds[i]: a folder, a mesh node of one triangle ("MeshNode"),
\* a mesh node of empty buffers ("EmptyMesh") or a mesh node whose mesh is
\* no surface ("Lines")
TreeNodes(n, parent, kinds) ==
    [i \in 1..n |->
        [id |-> <<NodeIds[i]>>,
         kind |-> IF kinds[i] = "FolderNode" THEN "FolderNode" ELSE "MeshNode",
         name |-> <<"N", " ", ToString(i)>>,
         mesh |-> IF kinds[i] = "MeshNode" THEN Triangle
                  ELSE IF kinds[i] = "EmptyMesh" THEN EmptyMesh ELSE NoSurface,
         children |-> SelectSeq([k \in 1..n |-> k], LAMBDA k : k > 1 /\ parent[k] = i),
         transform |-> Matrix4_identity]]

\* the trees of up to MaxTreeNodes nodes with the given kinds in which only
\* folders have children and the root node is a folder
TreesOf(labels) ==
    UNION {{TreeNodes(n, pk[1], pk[2]) :
                pk \in {qk \in {p \in [1..n -> 0..n] :
                                    \A i \in 1..n : p[i] < i /\ (i > 1 => p[i] > 0)}
                               \X [1..n -> labels] :
                           /\ qk[2][1] = "FolderNode"
                           /\ \A i \in 2..n : qk[2][qk[1][i]] = "FolderNode"}} :
           n \in 1..MaxTreeNodes}

RoundTripKinds == {"FolderNode", "MeshNode"}

\* a mesh node has no children, the root node is a folder
WellFormedTree(all) ==
    /\ all[1].kind = "FolderNode"
    /\ \A i \in 1..Len(all) : all[i].kind = "MeshNode" => all[i].children = <<>>

InitRoundTrip ==
    /\ pc = "export"
    /\ \E name \in DocumentNames : \E all \in TreesOf(RoundTripKinds) :
          /\ WellFormedTree(all)
          /\ tree = [name |-> name, nodes |-> all]
    /\ calls = NoCalls
    /\ ParseIdle
    /\ ImportIdle
    /\ QuoteIdle
    /\ SplitIdle
    /\ SerializerIdle
    /\ MeshIdle

\* IfcLiteService.export
Export ==
    /\ pc = "export"
    /\ \E isoString \in IsoStrings :
       \E exported \in {IfcLiteExporter_export(tree, isoString)} :
          text' = exported
    /\ calls' = [calls EXCEPT !.IfcLiteExporter = @ + 1]
    /\ pc' = "import"
    /\ UNCHANGED <<stmts, parser, ifc, quoteVars, splitVars, serializerVars, importVars,
                   surface, tree>>

NextRoundTrip == Export \/ ImportBegin \/ VisitChild \/ ReturnNode

SpecRoundTrip == InitRoundTrip /\ [][NextRoundTrip]_vars

\* the container/leaf shape of the tree below node i
RECURSIVE ShapeOf(_, _)
ShapeOf(all, i) ==
    [leaf |-> all[i].kind = "MeshNode",
     children |-> [k \in 1..Len(all[i].children) |-> ShapeOf(all, all[i].children[k])]]

\* C4: importing the text that export writes for a tree of containers and
\* geometry leaves gives back the shape of that tree: the imported tree has
\* a node below which every container of the input is a container with the
\* same number of children and every geometry leaf is a geometry node.
RoundTripShape ==
    (pc = "done" /\ tree.nodes # <<>>) =>
        \E n \in 1..Len(nodes) : ShapeOf(nodes, n) = ShapeOf(tree.nodes, 1)

(***************************************************************************)
(* IFCLiteExporter of ifcx-core (part_010): export builds the entity list  *)
(* of an IFCDocument.  st carries the entities pushed so far and nextId,   *)
(* the counter behind allocateId.                                          *)
(***************************************************************************)
\* `IFC5CAD${seed.toString(36).toUpperCase().padStart(15, "0")}`.slice(0, 22)
\* for the seeds the model allocates
GlobalIdWords ==
    <<"IFC5CAD000000000000001", "IFC5CAD000000000000002", "IFC5CAD000000000000003",
      "IFC5CAD000000000000004", "IFC5CAD000000000000005", "IFC5CAD000000000000006",
      "IFC5CAD000000000000007", "IFC5CAD000000000000008", "IFC5CAD000000000000009",
      "IFC5CAD00000000000000A", "IFC5CAD00000000000000B", "IFC5CAD00000000000000C",
      "IFC5CAD00000000000000D", "IFC5CAD00000000000000E", "IFC5CAD00000000000000F",
      "IFC5CAD00000000000000G", "IFC5CAD00000000000000H", "IFC5CAD00000000000000I",
      "IFC5CAD00000000000000J", "IFC5CAD00000000000000K", "IFC5CAD00000000000000L",
      "IFC5CAD00000000000000M", "IFC5CAD00000000000000N", "IFC5CAD00000000000000O",
      "IFC5CAD00000000000000P", "IFC5CAD00000000000000Q", "IFC5CAD00000000000000R",
      "IFC5CAD00000000000000S", "IFC5CAD00000000000000T", "IFC5CAD00000000000000U",
      "IFC5CAD00000000000000V", "IFC5CAD00000000000000W", "IFC5CAD00000000000000X",
      "IFC5CAD00000000000000Y", "IFC5CAD00000000000000Z", "IFC5CAD000000000000010",
      "IFC5CAD000000000000011", "IFC5CAD000000000000012", "IFC5CAD000000000000013",
      "IFC5CAD000000000000014", "IFC5CAD000000000000015", "IFC5CAD000000000000016">>

globalId(seed) == IFCLiteSerializer_quote(<<GlobalIdWords[seed]>>)

\* `(${ids.map((x) => `#${x}`).join(",")})`
refList(ids) ==
    <<"(">> \o join([i \in 1..Len(ids) |-> <<"#", ToString(ids[i])>>], ",") \o <<")">>

\* entities.push(makeEntity(allocateId(), ...)) for a relationship of node id
pushRelationship(st, type, name, first, second) ==
    [st EXCEPT !.entities = Append(@, makeEntity(st.nextId, type,
                                <<globalId(st.nextId), <<"$">>, IFCLiteSerializer_quote(name),
                                  <<"$">>, first, second>>)),
               !.nextId = @ + 1]

\* lines 148-178: the relationships of a container, after its children
closeNode(st, id) ==
    With(IF Len(st.spatialChildren) > 0
         THEN pushRelationship(st, "IFCRELAGGREGATES", <<"Spatial", " ", "Aggregation">>,
                               <<"#", ToString(id)>>, refList(st.spatialChildren))
         ELSE st,
         LAMBDA aggregated :
            IF Len(st.elements) > 0
            THEN pushRelationship(aggregated, "IFCRELCONTAINEDINSPATIALSTRUCTURE",
                                  <<"Contained", " ", "Elements">>,
                                  refList(st.elements), <<"#", ToString(id)>>)
            ELSE aggregated)

\* lines 140-145: the child's id goes to spatialChildren or to elements
pushChild(st, isList, r) ==
    [entities |-> r.entities, nextId |-> r.nextId,
     spatialChildren |-> IF isList THEN Append(st.spatialChildren, r.id)
                         ELSE st.spatialChildren,
     elements |-> IF isList THEN st.elements ELSE Append(st.elements, r.id)]

\* the entity of a node, lines 98-126
nodeEntity(id, node) ==
    IF node.kind = "FolderNode"
    THEN makeEntity(id, "IFCBUILDINGSTOREY",
                    <<globalId(id), <<"$">>, IFCLiteSerializer_quote(node.name), <<"$">>,
                      <<"$">>, <<"$">>, <<"$">>, <<"$">>, <<"$">>, <<"$">>, <<"$">> >>)
    ELSE makeEntity(id, "IFCBUILDINGELEMENTPROXY",
                    <<globalId(id), <<"$">>, IFCLiteSerializer_quote(node.name), <<"$">>,
                      <<"$">>, <<"$">>, <<"$">>, <<"$">>, <<"$">> >>)

\* appendNode returns the id of the node; the result carries entities and
\* nextId as the call leaves them
RECURSIVE appendNode(_, _, _)
RECURSIVE appendChildren(_, _, _)
appendNode(all, st, n) ==
    LET id == st.nextId
        pushed == [entities |-> Append(st.entities, nodeEntity(id, all[n])),
                   nextId |-> id + 1]
    IN  IF all[n].kind = "FolderNode"
        THEN With(closeNode(appendChildren(all,
                                [entities |-> pushed.entities, nextId |-> pushed.nextId,
                                 spatialChildren |-> <<>>, elements |-> <<>>],
                                all[n].children), id),
                  LAMBDA closed : [entities |-> closed.entities, nextId |-> closed.nextId,
                                   id |-> id])
        ELSE [entities |-> pushed.entities, nextId |-> pushed.nextId, id |-> id]

appendChildren(all, st, kids) ==
    IF kids = <<>> THEN st
    ELSE appendChildren(all,
            pushChild(st, all[Head(kids)].kind = "FolderNode",
                      appendNode(all, [entities |-> st.entities, nextId |-> st.nextId],
                                 Head(kids))),
            Tail(kids))

\* lines 69-72: appendNode for every child of the root, all ids in childrenIds
RECURSIVE appendRoots(_, _, _)
appendRoots(all, st, roots) ==
    IF roots = <<>> THEN st
    ELSE appendRoots(all, pushChild(st, TRUE,
                            appendNode(all, [entities |-> st.entities, nextId |-> st.nextId],
                                       Head(roots))),
                     Tail(roots))

\* lines 10-11: let nextId = 1 and the empty entity list
NewExport == [entities |-> <<>>, nextId |-> 1, spatialChildren |-> <<>>, elements |-> <<>>]

\* entities.push(makeEntity(nextId++, type, globalId(id), ...rest))
pushEntity(st, type, rest) ==
    [st EXCEPT !.entities = Append(@, makeEntity(st.nextId, type,
                                                 <<globalId(st.nextId)>> \o rest)),
               !.nextId = @ + 1]

idRef(id) == <<"#", ToString(id)>>

IFCLiteExporter_export(document, schema) ==
    With(pushEntity(NewExport, "IFCPROJECT",
                    << <<"$">>,
                       IFCLiteSerializer_quote(IF document.name = <<>> THEN <<"Project">>
                                               ELSE document.name),
                       <<"$">>, <<"$">>, <<"$">>, <<"$">>, <<"$">> >>),
         LAMBDA projected :
    With(pushEntity(projected, "IFCBUILDING",
                    << <<"$">>, IFCLiteSerializer_quote(<<"Building">>), <<"$">>, <<"$">>,
                       <<"$">>, <<"$">>, <<"$">>, <<"$">>, <<"$">> >>),
         LAMBDA built :
    With(appendRoots(document.nodes,
                     pushRelationship(built, "IFCRELAGGREGATES",
                                      <<"Project", " ", "Aggregation">>,
                                      idRef(NewExport.nextId),
                                      <<"(">> \o idRef(projected.nextId) \o <<")">>),
                     document.nodes[1].children),
         LAMBDA st :
            [schema |-> schema,
             entities |-> IF Len(st.spatialChildren) > 0
                          THEN pushRelationship(st, "IFCRELAGGREGATES",
                                    <<"Building", " ", "Aggregation">>,
                                    idRef(projected.nextId),
                                    refList(st.spatialChildren)).entities
                          ELSE st.entities])))

(***************************************************************************)
(* The exporters on their own: IfcLiteService.export writes the text of    *)
(* the document, IFCLiteExporter.export of ifcx-core builds its entity     *)
(* list, and between two calls a node may be added to the document.  The   *)
(* trees hold folders, mesh nodes of one triangle and mesh nodes from      *)
(* which no mesh can be taken.                                             *)
(***************************************************************************)
ExportKinds == {"FolderNode", "MeshNode", "EmptyMesh", "Lines"}

InitExport ==
    /\ pc = "export"
    /\ \E name \in DocumentNames : \E all \in TreesOf(ExportKinds) :
          /\ WellFormedTree(all)
          /\ tree = [name |-> name, nodes |-> all]
    /\ calls = NoCalls
    /\ ParseIdle
    /\ ImportIdle
    /\ QuoteIdle
    /\ SplitIdle
    /\ SerializerIdle
    /\ MeshIdle

\* IFCLiteExporter.export(document, "IFC4X3"), as the export command calls it
ExportIfc ==
    /\ pc = "export"
    /\ \E built \in {IFCLiteExporter_export(tree, "IFC4X3")} :
          doc' = built
    /\ calls' = [calls EXCEPT !.IFCLiteExporter = @ + 1]
    /\ pc' = "exported"
    /\ UNCHANGED <<parseVars, parsed, quoteVars, splitVars, importVars, surface, tree>>

\* the user adds a mesh node below the root node before the next export
AddNode ==
    /\ pc \in {"import", "exported"}
    /\ Len(tree.nodes) < MaxTreeNodes
    /\ \E grown \in {TreeNodes(Len(tree.nodes) + 1,
                               [i \in 1..(Len(tree.nodes) + 1) |-> 1],
                               [i \in 1..(Len(tree.nodes) + 1) |-> "MeshNode"])} :
          tree' = [tree EXCEPT
                     !.nodes = [i \in 1..Len(grown) |->
                                  IF i = 1
                                  THEN [tree.nodes[1] EXCEPT !.children = Append(@, Len(grown))]
                                  ELSE IF i = Len(grown) THEN grown[i] ELSE tree.nodes[i]]]
    /\ pc' = "export"
    /\ UNCHANGED <<parseVars, serializerVars, quoteVars, splitVars, importVars, surface,
                   calls>>

NextExport == Export \/ ExportIfc \/ AddNode

SpecExport == InitExport /\ [][NextExport]_vars

\* the id of the entity IFCLiteExporter.export has written for node i of the
\* tree: the building for the root node, else the storey or proxy that
\* carries the node's name
EntityIdOf(i) ==
    IF i = 1
    THEN (CHOOSE e \in {doc.entities[k] : k \in 1..Len(doc.entities)} :
                e.type = "IFCBUILDING").id
    ELSE (CHOOSE e \in {doc.entities[k] : k \in 1..Len(doc.entities)} :
                /\ e.type \in {"IFCBUILDINGSTOREY", "IFCBUILDINGELEMENTPROXY"}
                /\ e.args[3] = IFCLiteSerializer_quote(tree.nodes[i].name)).id

\* the children of node i that are containers, or that are not, in child order
ChildrenOfKind(i, containers) ==
    SelectSeq(tree.nodes[i].children,
              LAMBDA c : (tree.nodes[c].kind = "FolderNode") = containers)

ChildIds(kids) == [k \in 1..Len(kids) |-> EntityIdOf(kids[k])]

\* the relationship entities of the given type whose whole (argument whole)
\* is the entity of node i
RelationshipsOf(i, type, whole) ==
    {k \in 1..Len(doc.entities) :
        /\ doc.entities[k].type = type
        /\ doc.entities[k].args[whole] = idRef(EntityIdOf(i))}

\* node i has one relationship of the type listing exactly kids, or none
\* when kids is empty
ListsExactly(i, type, whole, part, kids) ==
    /\ Cardinality(RelationshipsOf(i, type, whole)) = IF kids = <<>> THEN 0 ELSE 1
    /\ \A k \in RelationshipsOf(i, type, whole) :
          doc.entities[k].args[part] = refList(ChildIds(kids))

\* C11: for every container node of the exported tree the entity list holds
\* one aggregation relationship listing exactly its container children in
\* child order, none if it has no container child, and one containment
\* relationship listing exactly its other children, none if it has none.
RelationshipsPerContainer ==
    pc = "exported" =>
        \A i \in 1..Len(tree.nodes) :
            tree.nodes[i].kind = "FolderNode" =>
                /\ ListsExactly(i, "IFCRELAGGREGATES", 5, 6, ChildrenOfKind(i, TRUE))
                /\ ListsExactly(i, "IFCRELCONTAINEDINSPATIALSTRUCTURE", 6, 5,
                                ChildrenOfKind(i, FALSE))

\* the positions of the text where an entity line begins: a "#" at the
\* beginning of the text or after a line break
EntityStarts(t) ==
    {p \in 1..Len(t) : t[p] = "#" /\ (p = 1 \/ t[p - 1] = "\n")}

\* the k-th entity line of the text carries id k
IdsCountFromOne(t) ==
    With(EntityStarts(t), LAMBDA starts :
        /\ starts # {}
        /\ \A p \in starts :
              /\ t[p + 1] = ToString(Cardinality({q \in starts : q < p}) + 1)
              /\ t[p + 2] = "=")

\* C12: in the output of every export call, of either exporter, the k-th
\* emitted entity has id k, so ids start at 1, grow by one per entity and are
\* never used twice; this holds for the first call and for every later call,
\* whatever calls and edits of the document came before.
IdsRestartAtOne ==
    /\ pc = "import" => IdsCountFromOne(text)
    /\ pc = "exported" =>
          /\ doc.entities # <<>>
          /\ \A k \in 1..Len(doc.entities) : doc.entities[k].id = k

\* both exporters have been called a second time, after the document had
\* been exported and edited
IdsRestartAtOneWitness ==
    /\ pc = "exported"
    /\ calls.IfcLiteExporter >= 2
    /\ calls.IFCLiteExporter >= 2
    /\ Len(doc.entities) > 4
    /\ Cardinality(EntityStarts(text)) > 14

\* the entity line of the text that begins at position p, without its
\* line break
LineAt(t, p) ==
    SubSeq(t, p, CHOOSE e \in p..Len(t) :
                    /\ e = Len(t) \/ t[e + 1] = "\n"
                    /\ \A q \in p..e : t[q] # "\n")

\* id, type and arguments of an entity line "#id=TYPE(args);"
EntityOfLine(line) ==
    With(matchEntity(SubSeq(line, 1, Len(line) - 1)), LAMBDA m :
        [id |-> parseInt(m.id), type |-> m.type, args |-> splitTopLevel(m.body)])

\* the entities written in the text
WrittenEntities(t) == {EntityOfLine(LineAt(t, p)) : p \in EntityStarts(t)}

\* node i is written as an element: it is not the root node and has no child
IsExportedLeaf(i) ==
    i > 1 /\ ~(tree.nodes[i].kind = "FolderNode" /\ tree.nodes[i].children # <<>>)

\* node i carries a surface mesh with points and indices
HasExtractableMesh(i) ==
    /\ tree.nodes[i].kind = "MeshNode"
    /\ tree.nodes[i].mesh.ok
    /\ tree.nodes[i].mesh.position # <<>>
    /\ tree.nodes[i].mesh.index # <<>>

GeometryTypes ==
    {"IFCCARTESIANPOINTLIST3D", "IFCTRIANGULATEDFACESET", "IFCSHAPEREPRESENTATION",
     "IFCPRODUCTDEFINITIONSHAPE"}

ReferencesIn(a) ==
    {parseInt(a[q + 1]) : q \in {r \in 1..(Len(a) - 1) :
                                    a[r] = "#" /\ ~InLiteral(a, r) /\ IsDigits(a[r + 1])}}

\* every reference of every entity of the set names an entity of the set
\* with a lower id
ReferencesBackward(es) ==
    \A e \in es : \A k \in 1..Len(e.args) : \A n \in ReferencesIn(e.args[k]) :
        n < e.id /\ \E d \in es : d.id = n

\* node j lies below node i in the tree
ParentOf(j) == CHOOSE p \in 1..Len(tree.nodes) :
                  \E k \in 1..Len(tree.nodes[p].children) : tree.nodes[p].children[k] = j
RECURSIVE IsBelow(_, _)
IsBelow(j, i) == j > i /\ (ParentOf(j) = i \/ IsBelow(ParentOf(j), i))

\* C20: in the output of an export call, of either exporter, every reference
\* in the arguments of an entity names an entity of the same output with a
\* lower id; the relationships IFCLiteExporter writes for a container have
\* ids above the ids of the entities of all nodes below that container.
ReferencesPointBack ==
    /\ pc = "import" => ReferencesBackward(WrittenEntities(text))
    /\ pc = "exported" =>
          /\ ReferencesBackward({doc.entities[k] : k \in 1..Len(doc.entities)})
          /\ \A i \in 1..Len(tree.nodes) : \A j \in 1..Len(tree.nodes) :
                IsBelow(j, i) =>
                    \A k \in RelationshipsOf(i, "IFCRELAGGREGATES", 5)
                             \cup RelationshipsOf(i, "IFCRELCONTAINEDINSPATIALSTRUCTURE", 6) :
                        doc.entities[k].id > EntityIdOf(j)

\* both exporters have been called, the document was edited in between: the
\* text holds a containment relationship that lists elements, and the entity
\* list holds a relationship of a folder below the root
ReferencesPointBackWitness ==
    /\ pc = "exported"
    /\ calls.IfcLiteExporter >= 1
    /\ \E e \in WrittenEntities(text) :
          e.type = "IFCRELCONTAINEDINSPATIALSTRUCTURE" /\ ReferencesIn(e.args[5]) # {}
    /\ \E i, j \in 2..Len(tree.nodes) :
          /\ IsBelow(j, i)
          /\ RelationshipsOf(i, "IFCRELAGGREGATES", 5)
                \cup RelationshipsOf(i, "IFCRELCONTAINEDINSPATIALSTRUCTURE", 6) # {}


\* the same tree made of other node objects: same structure, names and
\* meshes, every node with the id of another node
Recreated(all) == [i \in 1..Len(all) |-> [all[i] EXCEPT !.id = <<NodeIds[i + 1]>>]]

\* C28: the text returned by IfcLiteService.export is the text every call
\* returns for a tree of the same structure and names under the same
\* document name, at whatever time it is made and whatever nodes the tree is
\* made of.
ExportDeterministic ==
    (pc = "import" /\ calls.IfcLiteExporter > 0) =>
        \A isoString \in IsoStrings : \A other \in {tree.nodes, Recreated(tree.nodes)} :
            IfcLiteExporter_export([tree EXCEPT !.nodes = other], isoString) = text

(***************************************************************************)
(* IFCLiteImporter of ifcx-core: import and toNode over a document of the  *)
(* serializer, one step per call of toNode and one per return. The stack   *)
(* holds the loops in progress: the loop of import over the seeds at the   *)
(* bottom, above it the loops of toNode over byParent.get(id).             *)
(***************************************************************************)
MaxLiteRels == 2     \* most relationship entities of a document handed to import

SPATIAL_TYPES == {"IFCPROJECT", "IFCSITE", "IFCBUILDING", "IFCBUILDINGSTOREY", "IFCSPACE"}

\* the places of the text where /#(\d+)/ matches, in order
refMatches(v) ==
    SelectSeq([r \in 1..Len(v) |-> r],
              LAMBDA r : r < Len(v) /\ v[r] = "#" /\ IsDigits(v[r + 1]))

\* value.match(/#(\d+)/): the number of the first match, NoRef for undefined
IFCLiteSerializer_firstRef(v) ==
    With(refMatches(v), LAMBDA at :
        IF at = <<>> THEN NoRef ELSE parseInt(v[at[1] + 1]))

\* value.matchAll(/#(\d+)/g): the numbers of all matches
IFCLiteSerializer_listRefs(v) ==
    With(refMatches(v), LAMBDA at : [k \in 1..Len(at) |-> parseInt(v[at[k] + 1])])

IFCLiteSerializer_decodeString(v, fallback) ==
    IF v = <<>> \/ v = <<"$">> \/ v = <<"'">> THEN fallback
    ELSE IF ~(startsWith(v, "'") /\ endsWith(v, "'")) THEN fallback
    ELSE collapseQuotes(sliceInner(v))

\* if (parent): a reference was found and its number is not 0
hasParent(parent) == parent # NoRef /\ parent # 0

\* the loop of import over the entities: byParent
RECURSIVE byParentFrom(_, _, _)
byParentFrom(entities, i, map) ==
    IF i > Len(entities) THEN map
    ELSE byParentFrom(entities, i + 1,
            IF entities[i].type = "IFCRELAGGREGATES"
            THEN With(IFCLiteSerializer_firstRef(arg(entities[i], 4)), LAMBDA parent :
                    IF hasParent(parent)
                    THEN link(map, parent, IFCLiteSerializer_listRefs(arg(entities[i], 5)))
                    ELSE map)
            ELSE IF entities[i].type = "IFCRELCONTAINEDINSPATIALSTRUCTURE"
            THEN With(IFCLiteSerializer_firstRef(arg(entities[i], 5)), LAMBDA parent :
                    IF hasParent(parent)
                    THEN link(map, parent, IFCLiteSerializer_listRefs(arg(entities[i], 4)))
                    ELSE map)
            ELSE map)

\* the loop of import over the entities: usedAsChild, the ids of the lists
\* that went into byParent
usedAsChildOf(map) == UNION {{map[p][k] : k \in 1..Len(map[p])} : p \in DOMAIN map}

\* the seeds of import as ids: the spatial entities that no list holds, or
\* all spatial entities when there is none
seedsOf(entities, usedAsChild) ==
    With(SelectSeq(entities, LAMBDA x : x.type \in SPATIAL_TYPES /\ x.id \notin usedAsChild),
         LAMBDA rootEntities :
            With(IF Len(rootEntities) > 0 THEN rootEntities
                 ELSE SelectSeq(entities, LAMBDA x : x.type \in SPATIAL_TYPES),
                 LAMBDA seeds : [k \in 1..Len(seeds) |-> seeds[k].id]))

\* a seen set that remembers nothing
seenHasNothing(seen, id) == FALSE

\* seen.has(id) of toNode
seenHas(seen, id) == id \in seen

\* one call of toNode for the next id of the loop on top of the stack: no
\* node for an id seen before or without entity, otherwise the container is
\* made and its loop over byParent.get(id) ?? [] begins
toNode(ns, st, seen, entities, map, id) ==
    With(byIdGet(entities, id), LAMBDA found :
        IF seenHas(seen, id) \/ found = Undefined
        THEN [nodes |-> ns, stack |-> advance(st), visited |-> seen]
        ELSE [nodes |-> Append(ns, FolderNode(id,
                            IFCLiteSerializer_decodeString(arg(found, 2),
                                <<found.type, "_", ToString(found.id)>>))),
              stack |-> Append(st, [entityId |-> id, node |-> Len(ns) + 1,
                                    kids |-> childrenOf(map, id), next |-> 1]),
              visited |-> seen \cup {id}])

LiteImportBegin ==
    /\ pc = "liteImport"
    /\ \E map \in {byParentFrom(doc.entities, 1, [k \in {} |-> <<>>])} :
          /\ childMap' = map
          /\ nodes' = <<FolderNode(NoRef, <<"Imported", " ", doc.schema>>)>>
          /\ stack' = <<[entityId |-> NoRef, node |-> RootNode,
                         kids |-> seedsOf(doc.entities, usedAsChildOf(map)), next |-> 1]>>
          /\ visited' = {}
    /\ pc' = "liteLoop"
    /\ UNCHANGED <<parseVars, doc, parsed, quoteVars, splitVars, surface, tree, calls>>

\* the next turn of the loop in progress: the call of toNode
LiteCall ==
    /\ pc = "liteLoop"
    /\ LET frame == stack[Len(stack)]
       IN  /\ frame.next <= Len(frame.kids)
           /\ \E r \in {toNode(nodes, stack, visited, doc.entities, childMap,
                               frame.kids[frame.next])} :
                  /\ nodes' = r.nodes
                  /\ stack' = r.stack
                  /\ visited' = r.visited
    /\ UNCHANGED <<pc, parseVars, doc, parsed, childMap, quoteVars, splitVars, surface, tree,
                   calls>>

\* the loop in progress is over: toNode returns its container, which the
\* caller adds to its own; import returns the root
LiteReturn ==
    /\ pc = "liteLoop"
    /\ LET frame == stack[Len(stack)]
           rest == SubSeq(stack, 1, Len(stack) - 1)
       IN  /\ frame.next > Len(frame.kids)
           /\ nodes' = IF rest = <<>> THEN nodes ELSE add(nodes, currentParent(rest), frame.node)
           /\ stack' = advance(rest)
           /\ pc' = IF rest = <<>> THEN "liteDone" ELSE "liteLoop"
    /\ UNCHANGED <<parseVars, doc, parsed, childMap, visited, quoteVars, splitVars, surface,
                   tree, calls>>

(***************************************************************************)
(* The documents handed to import: a project #1, a site #2 without name    *)
(* and a wall #3, with or without a space that carries the id 2 again, and *)
(* relationships over them that name the project, the site or nothing as   *)
(* parent and list entities of the document and the entity #9 it lacks.    *)
(***************************************************************************)
LiteChildLists == {<<2, 3>>, <<1, 3, 9>>, <<2>>, <<1, 2>>}

\* the lists (1,3,9) and (2) make a containment, the others an aggregation
LiteRels ==
    {[parent |-> p, children |-> c, contained |-> c \in {<<1, 3, 9>>, <<2>>}] :
        p \in {1, 2, NoRef}, c \in LiteChildLists}

LiteRelEntity(id, rel) ==
    LET parent == IF rel.parent = NoRef THEN <<"$">> ELSE Ref(rel.parent)
    IN  IF rel.contained
        THEN makeEntity(id, "IFCRELCONTAINEDINSPATIALSTRUCTURE",
                        << <<"'", "g", "'">>, <<"$">>, <<"$">>, <<"$">>,
                           Refs(rel.children), parent >>)
        ELSE makeEntity(id, "IFCRELAGGREGATES",
                        << <<"'", "g", "'">>, <<"$">>, <<"$">>, <<"$">>,
                           parent, Refs(rel.children) >>)

LiteDocument(again, rels) ==
    [schema |-> "IFC4",
     entities |->
        << makeEntity(1, "IFCPROJECT", << <<"'", "g", "'">>, <<"$">>, <<"'", "P", "'">> >>),
           makeEntity(2, "IFCSITE", << <<"'", "g", "'">>, <<"$">>, <<"$">> >>),
           makeEntity(3, "IFCWALL", << <<"'", "g", "'">>, <<"$">>, <<"'", "W", "'">> >>) >>
        \o (IF again
            THEN << makeEntity(2, "IFCSPACE",
                               << <<"'", "g", "'">>, <<"$">>,
                                  IFCLiteSerializer_quote(<<"it", "'", "s">>) >>) >>
            ELSE <<>>)
        \o [i \in 1..Len(rels) |-> LiteRelEntity(10 + i, rels[i])]]

InitLiteImport ==
    /\ pc = "liteImport"
    /\ \E again \in BOOLEAN : \E rels \in SeqsUpTo(LiteRels, MaxLiteRels) :
          doc = LiteDocument(again, rels)
    /\ parsed = NoDocument
    /\ text = <<>>
    /\ stmts = <<>> /\ parser = "none" /\ ifc = NoDocument
    /\ QuoteIdle
    /\ SplitIdle
    /\ ImportIdle
    /\ MeshIdle
    /\ ExportIdle

NextLiteImport == LiteImportBegin \/ LiteCall \/ LiteReturn

SpecLiteImport == InitLiteImport /\ [][NextLiteImport]_vars

\* the ids the entities of the document carry
LiteEntityIds == {doc.entities[i].id : i \in 1..Len(doc.entities)}

\* the ids of the spatial entities of the document, in the order of the
\* entity list
LiteSpatialIds ==
    With(SelectSeq(doc.entities, LAMBDA x : x.type \in SPATIAL_TYPES),
         LAMBDA spatial : [k \in 1..Len(spatial) |-> spatial[k].id])

\* a relationship of the document that names a parent lists id as a child
LiteListedAsChild(id) ==
    \E i \in 1..Len(doc.entities) :
        LET e == doc.entities[i]
        IN  \/ /\ e.type = "IFCRELAGGREGATES"
               /\ ReferencesIn(arg(e, 4)) # {}
               /\ id \in ReferencesIn(arg(e, 5))
            \/ /\ e.type = "IFCRELCONTAINEDINSPATIALSTRUCTURE"
               /\ ReferencesIn(arg(e, 5)) # {}
               /\ id \in ReferencesIn(arg(e, 4))

\* the ids of a list
LiteRange(q) == {q[k] : k \in 1..Len(q)}

\* the nodes made for entity id
LiteNodesOf(id) == {n \in 2..Len(nodes) : nodes[n].entityId = id}

\* the places (node, position) where node n is listed as a child
LitePlacesOf(n) ==
    UNION {{<<p, k>> : k \in {j \in 1..Len(nodes[p].children) : nodes[p].children[j] = n}} :
            p \in 1..Len(nodes)}

\* What is left of the import: the call and the return of every entity not
\* yet seen and the ids it lists, the ids the loops in progress have not
\* reached yet, and the returns of those loops.
LiteRemaining ==
    SumFrom([i \in 1..Len(doc.entities) |->
                IF /\ doc.entities[i].id \notin visited
                   /\ \A j \in 1..(i - 1) : doc.entities[j].id # doc.entities[i].id
                THEN 2 + Len(childrenOf(childMap, doc.entities[i].id)) ELSE 0], 1, 0)
    + SumFrom([f \in 1..Len(stack) |-> Len(stack[f].kids) + 1 - stack[f].next], 1, 0)
    + Len(stack)

\* the import is not over and can take its next step
LiteCanStep ==
    /\ stack # <<>>
    /\ stack[Len(stack)].next \in 1..(Len(stack[Len(stack)].kids) + 1)

MaxIfcxNodes == 3    \* most nodes of a generated IFCX document

\* a child path that is null or the empty string: !childPath holds of both
NullPath == ""

\* the displayName of a call that hands none
NoDisplayName == "undefined"

\* nodeMap.get(path): the place in data of the last node written under the
\* path, 0 for undefined
nodeMapGet(data, path) ==
    LET hits == {i \in 1..Len(data) : data[i].path = path}
    IN  IF hits = {} THEN 0 ELSE CHOOSE i \in hits : \A j \in hits : i >= j

\* referencedPaths of import
referencedPaths(data) ==
    UNION {{data[i].children.entries[k].path : k \in 1..Len(data[i].children.entries)} :
            i \in 1..Len(data)}

\* rootIfcxNodes of import, as places in data
rootIfcxNodes(data) ==
    SelectSeq([i \in 1..Len(data) |-> i], LAMBDA i : data[i].path \notin referencedPaths(data))

\* getNodeName: the Name of the first attribute that has one, else the first
\* eight characters of the path (the paths written here are shorter)
getNodeName(ifcxNode) ==
    IF ifcxNode.attributes.name # "" THEN ifcxNode.attributes.name ELSE ifcxNode.path

\* convertMesh: no mesh without points or without indices
convertMesh(meshData) ==
    IF Len(meshData.points) = 0 \/ Len(meshData.faceVertexIndices) = 0 THEN NoSurface
    ELSE [ok |-> TRUE,
          position |-> [k \in 1..(3 * Len(meshData.points)) |->
                           meshData.points[((k - 1) \div 3) + 1][((k - 1) % 3) + 1]],
          index |-> meshData.faceVertexIndices]

\* the node convertNode makes for an IFCX node, before it turns to the
\* children
chiliNodeOf(ifcxNode, displayName) ==
    With(IF displayName # NoDisplayName THEN displayName ELSE getNodeName(ifcxNode),
         LAMBDA name :
            IF ifcxNode.attributes.hasMesh /\ ~ifcxNode.attributes.isSpatial
            THEN With(convertMesh(ifcxNode.attributes.mesh), LAMBDA mesh :
                    IF mesh.ok THEN MeshNode(ifcxNode.path, mesh, name)
                    ELSE FolderNode(ifcxNode.path, name))
            ELSE FolderNode(ifcxNode.path, name))

\* the entries the loop of a call of convertNode goes through: those of
\* ifcxNode.children when the node made is a FolderNode and the IFCX node
\* has children
entriesOf(data, ifcxNode, chiliNode) ==
    IF chiliNode.kind = "FolderNode" /\ ifcxNode.children.defined
    THEN [k \in 1..Len(ifcxNode.children.entries) |->
            [key |-> ifcxNode.children.entries[k].key,
             at |-> IF ifcxNode.children.entries[k].path = NullPath THEN 0
                    ELSE nodeMapGet(data, ifcxNode.children.entries[k].path)]]
    ELSE <<>>

\* one call of convertNode for the node at a place of data: the node is made
\* and the loop over the child entries begins
convertNode(ns, st, data, at, displayName) ==
    With(chiliNodeOf(data[at], displayName), LAMBDA chiliNode :
        [nodes |-> Append(ns, chiliNode),
         stack |-> Append(st, [node |-> Len(ns) + 1,
                               entries |-> entriesOf(data, data[at], chiliNode),
                               next |-> 1])])

IfcxImportBegin ==
    /\ pc = "ifcxImport"
    /\ nodes' = <<FolderNode("", IF doc.header.id # "" THEN doc.header.id
                                 ELSE "Imported IFCX")>>
    /\ stack' = <<[node |-> RootNode,
                   entries |-> With(rootIfcxNodes(doc.data), LAMBDA roots :
                                  [k \in 1..Len(roots) |->
                                      [key |-> NoDisplayName, at |-> roots[k]]]),
                   next |-> 1]>>
    /\ pc' = "ifcxLoop"
    /\ UNCHANGED <<parseVars, doc, parsed, childMap, visited, quoteVars, splitVars, surface,
                   tree, calls>>

\* continue: the entry has no path or names no node of the document
IfcxSkip ==
    /\ pc = "ifcxLoop"
    /\ LET frame == stack[Len(stack)]
       IN  /\ frame.next <= Len(frame.entries)
           /\ frame.entries[frame.next].at = 0
    /\ stack' = advance(stack)
    /\ UNCHANGED <<pc, parseVars, doc, parsed, childMap, nodes, visited, quoteVars, splitVars,
                   surface, tree, calls>>

\* the call of convertNode for the next root node or child entry
IfcxCall ==
    /\ pc = "ifcxLoop"
    /\ Len(stack) < MaxCallDepth
    /\ LET frame == stack[Len(stack)]
       IN  /\ frame.next <= Len(frame.entries)
           /\ frame.entries[frame.next].at # 0
           /\ \E r \in {convertNode(nodes, stack, doc.data, frame.entries[frame.next].at,
                                    frame.entries[frame.next].key)} :
                  /\ nodes' = r.nodes
                  /\ stack' = r.stack
    /\ UNCHANGED <<pc, parseVars, doc, parsed, childMap, visited, quoteVars, splitVars,
                   surface, tree, calls>>

\* the engine has no room for one more call: RangeError leaves import
IfcxStackOverflow ==
    /\ pc = "ifcxLoop"
    /\ Len(stack) = MaxCallDepth
    /\ LET frame == stack[Len(stack)]
       IN  /\ frame.next <= Len(frame.entries)
           /\ frame.entries[frame.next].at # 0
    /\ stack' = <<>>
    /\ pc' = "RangeError"
    /\ UNCHANGED <<parseVars, doc, parsed, childMap, nodes, visited, quoteVars, splitVars,
                   surface, tree, calls>>

\* the loop in progress is over: convertNode returns its node, which the
\* caller adds to its own; import returns the root
IfcxReturn ==
    /\ pc = "ifcxLoop"
    /\ LET frame == stack[Len(stack)]
           rest == SubSeq(stack, 1, Len(stack) - 1)
       IN  /\ frame.next > Len(frame.entries)
           /\ nodes' = IF rest = <<>> THEN nodes ELSE add(nodes, currentParent(rest), frame.node)
           /\ stack' = advance(rest)
           /\ pc' = IF rest = <<>> THEN "ifcxDone" ELSE "ifcxLoop"
    /\ UNCHANGED <<parseVars, doc, parsed, childMap, visited, quoteVars, splitVars, surface,
                   tree, calls>>

(***************************************************************************)
(* The documents handed to import: up to MaxIfcxNodes nodes of paths a, b, *)
(* c, ..., each a group without attributes or, by its place, a storey with *)
(* mesh data, an element with mesh data or an element with empty mesh      *)
(* data; each without children, with none or one entry (a node of the      *)
(* document, itself included, the path x of no node, or no path) or with   *)
(* two entries for two nodes.                                              *)
(***************************************************************************)
IfcxPaths == <<"a", "b", "c", "d", "e">>

TriangleMeshData ==
    [points |-> << <<0, 0, 0>>, <<1, 0, 0>>, <<0, 1, 0>> >>, faceVertexIndices |-> <<0, 1, 2>>]

NoAttributes ==
    [isSpatial |-> FALSE, hasMesh |-> FALSE, mesh |-> [points |-> <<>>, faceVertexIndices |-> <<>>],
     name |-> ""]

IfcxAttributes(i) ==
    {NoAttributes,
     IF i % 3 = 1
     THEN [isSpatial |-> TRUE, hasMesh |-> TRUE, mesh |-> TriangleMeshData, name |-> "Storey"]
     ELSE IF i % 3 = 2
     THEN [isSpatial |-> FALSE, hasMesh |-> TRUE, mesh |-> TriangleMeshData, name |-> "Wall"]
     ELSE [isSpatial |-> FALSE, hasMesh |-> TRUE,
           mesh |-> [points |-> <<>>, faceVertexIndices |-> <<>>], name |-> ""]}

IfcxChildren(k) ==
    {[defined |-> FALSE, entries |-> <<>>], [defined |-> TRUE, entries |-> <<>>]}
    \cup {[defined |-> TRUE, entries |-> <<[key |-> "k1", path |-> p]>>] :
            p \in {IfcxPaths[i] : i \in 1..k} \cup {"x", NullPath}}
    \cup {[defined |-> TRUE,
           entries |-> <<[key |-> "k1", path |-> IfcxPaths[i]],
                         [key |-> "k2", path |-> IfcxPaths[j]]>>] :
            i \in 1..k, j \in 2..k}

InitIfcx ==
    /\ pc = "ifcxImport"
    /\ \E k \in 1..MaxIfcxNodes : \E id \in {"", "M"} :
       \E attributes \in [1..k -> UNION {IfcxAttributes(i) : i \in 1..k}] :
       \E children \in [1..k -> IfcxChildren(k)] :
          /\ \A i \in 1..k : attributes[i] \in IfcxAttributes(i)
          /\ doc = [header |-> [id |-> id],
                    data |-> [i \in 1..k |-> [path |-> IfcxPaths[i],
                                              children |-> children[i],
                                              attributes |-> attributes[i]]]]
    /\ parsed = NoDocument
    /\ text = <<>>
    /\ stmts = <<>> /\ parser = "none" /\ ifc = NoDocument
    /\ QuoteIdle
    /\ SplitIdle
    /\ ImportIdle
    /\ MeshIdle
    /\ ExportIdle

NextIfcx == IfcxImportBegin \/ IfcxSkip \/ IfcxCall \/ IfcxStackOverflow \/ IfcxReturn

SpecIfcx == InitIfcx /\ [][NextIfcx]_vars

\* C30: IFCXImporter.import terminates on every finite IFCX document, also
\* when children references form a cycle that a root node reaches: no more
\* calls of convertNode are in progress than the document has nodes, below
\* the loop of import itself, and import never ends in RangeError.
IfcxImportTerminates ==
    /\ pc # "RangeError"
    /\ pc = "ifcxLoop" => Len(stack) <= Len(doc.data) + 1

====
